---- MODULE Spec2Model ----
(***************************************************************************)
(* Model of the bilibili-web project page: the record normalizer           *)
(* (lib/project-records: normalizeRecords and its helpers) and the         *)
(* dashboard aggregations computed from the normalized records, of the     *)
(* chat route (api/chat: its checks of the request and the system prompt   *)
(* it builds), of the chat of the project page, of the useCloudBaseAuth    *)
(* hook and of the Home page's refreshData.                                *)
(*                                                                         *)
(* JavaScript values are tagged records.  A string is a sequence of UTF-16 *)
(* code units (natural numbers); a finite number is a sign, the decimal    *)
(* digits of its integer part (most significant first, no leading zero)    *)
(* and the decimal digits of its fraction (no trailing zero), so that      *)
(* timestamps beyond 2^31 keep their value.                                *)
(***************************************************************************)
EXTENDS Integers, Sequences, FiniteSets, TLC

VARIABLES
    doc,        \* the raw project document held by the document store
    tz,         \* minutes the local time zone is east of UTC
    now,        \* wall clock, in seconds since the page was opened
    pc,         \* "init" | "loaded"
    videos,     \* ProjectPage state: VideoRecord[]
    prevVideos, \* the result of the previous normalizeRecords call on doc
    callTimes,  \* the wall clock at each normalizeRecords call on doc
    dashboard,  \* the memoized views DashboardContent computed from videos
    chat,       \* api/chat: the request the route is serving, if any
    chatClient, \* ProjectPage state and refs of the chat, and its pending sends
    auth,       \* useCloudBaseAuth: its state, and its pending SDK calls
    home        \* Home page: projects, loading, and its pending refreshData calls

vars == <<doc, tz, now, pc, videos, prevVideos, callTimes, dashboard, chat,
          chatClient, auth, home>>

----------------------------------------------------------------------------
(* Sequences *)

Range(s) == {s[i] : i \in DOMAIN s}

----------------------------------------------------------------------------
(* JavaScript values *)

Undef == [t |-> "undefined"]
Null == [t |-> "null"]
Bool(b) == [t |-> "boolean", b |-> b]
Str(s) == [t |-> "string", s |-> s]
NaN == [t |-> "number", k |-> "nan"]
Inf(neg) == [t |-> "number", k |-> "inf", neg |-> neg]
Fin(neg, int, frac) ==
    [t |-> "number", k |-> "fin",
     neg |-> (neg /\ (int # <<>> \/ frac # <<>>)), int |-> int, frac |-> frac]
\* an array: its elements in index order
Arr(items) == [t |-> "object", c |-> "Array", items |-> items]
\* a plain object: its own enumerable properties, in enumeration order
Obj(props) == [t |-> "object", c |-> "Object", props |-> props]
Prop(k, v) == [k |-> k, v |-> v]

IsString(v) == v.t = "string"
IsFinite(v) == v.t = "number" /\ v.k = "fin"
IsArray(v) == v.t = "object" /\ v.c = "Array"
IsNullish(v) == v.t \in {"undefined", "null"}

\* item.<name>: property read on an object (undefined when absent)
Get(item, name) ==
    IF item.c = "Object" /\ \E i \in DOMAIN item.props : item.props[i].k = name
    THEN LET i == CHOOSE j \in DOMAIN item.props : item.props[j].k = name
         IN item.props[i].v
    ELSE Undef

\* the operands of ?? taken from the right: the last that is defined
Coalesce_lastDefined(a, b) == IF IsNullish(b) THEN a ELSE b

\* a ?? b
Coalesce(a, b) == IF IsNullish(a) THEN b ELSE a

\* ToBoolean(v)
Truthy(v) ==
    CASE IsNullish(v) -> FALSE
      [] v.t = "boolean" -> v.b
      [] v.t = "string" -> v.s # <<>>
      [] v.t = "number" -> v.k = "inf" \/ (v.k = "fin" /\ (v.int # <<>> \/ v.frac # <<>>))
      [] OTHER -> TRUE

\* a || b
LogicalOr(a, b) == IF Truthy(a) THEN a ELSE b

\* value.<name>: property read on any value but undefined and null, for a
\* name no primitive has
ReadMember(value, name) == IF value.t = "object" THEN Get(value, name) ELSE Undef

\* the values a rejected promise or a throw may carry: an Error, or another
\* value
ThrownError(message) == [error |-> TRUE, message |-> message]
ThrownValue == [error |-> FALSE]

----------------------------------------------------------------------------
(* Strings: sequences of UTF-16 code units *)

\* WhiteSpace and LineTerminator code units: what String.prototype.trim
\* strips and what \s matches
WhiteSpace ==
    {9, 10, 11, 12, 13, 32, 160, 5760, 8232, 8233, 8239, 8287, 12288, 65279}
        \cup (8192..8202)

IsDigit(c) == c \in 48..57
IsLatin(c) == c \in (65..90) \cup (97..122)
\* [一-龥]
IsCJK(c) == c \in 19968..40869

RECURSIVE TrimStart(_)
TrimStart(s) ==
    IF s # <<>> /\ s[1] \in WhiteSpace THEN TrimStart(Tail(s)) ELSE s

RECURSIVE TrimEnd(_)
TrimEnd(s) ==
    IF s # <<>> /\ s[Len(s)] \in WhiteSpace
    THEN TrimEnd(SubSeq(s, 1, Len(s) - 1)) ELSE s

\* value.trim()
Trim(s) == TrimEnd(TrimStart(s))

\* s.startsWith(p)
StartsWith(s, p) == Len(s) >= Len(p) /\ SubSeq(s, 1, Len(p)) = p

AllDigits(s) == \A i \in DOMAIN s : IsDigit(s[i])

\* /^\d+$/.test(s)
IsDigitString(s) == s # <<>> /\ AllDigits(s)

\* s.toLowerCase(), on the Basic Latin letters
ToLowerCase(s) ==
    [i \in DOMAIN s |-> IF s[i] \in 65..90 THEN s[i] + 32 ELSE s[i]]

\* decimal digit values of a digit string
DigitValues(s) == [i \in DOMAIN s |-> s[i] - 48]

\* String(n) for the digit values of a non-negative integer
DigitChars(ds) == IF ds = <<>> THEN <<48>> ELSE [i \in DOMAIN ds |-> ds[i] + 48]

----------------------------------------------------------------------------
(* Numbers: decimal digit sequences *)

RECURSIVE StripLeadingZeros(_)
StripLeadingZeros(ds) ==
    IF ds # <<>> /\ ds[1] = 0 THEN StripLeadingZeros(Tail(ds)) ELSE ds

RECURSIVE StripTrailingZeros(_)
StripTrailingZeros(ds) ==
    IF ds # <<>> /\ ds[Len(ds)] = 0
    THEN StripTrailingZeros(SubSeq(ds, 1, Len(ds) - 1)) ELSE ds

Zeros(n) == [i \in 1..n |-> 0]

\* the finite number with the given sign, integer digits and fraction digits
MakeFin(neg, int, frac) ==
    Fin(neg, StripLeadingZeros(int), StripTrailingZeros(frac))

\* the digits of a natural number below 2^31
RECURSIVE NatDigits(_)
NatDigits(n) == IF n = 0 THEN <<>> ELSE Append(NatDigits(n \div 10), n % 10)

\* the number with an integer value
Int2Num(n) == IF n < 0 THEN Fin(TRUE, NatDigits(-n), <<>>)
              ELSE Fin(FALSE, NatDigits(n), <<>>)

\* the natural number with the given digits (fewer than ten of them)
RECURSIVE DigitsNat(_)
DigitsNat(ds) ==
    IF ds = <<>> THEN 0
    ELSE 10 * DigitsNat(SubSeq(ds, 1, Len(ds) - 1)) + ds[Len(ds)]

\* ds * m + a for digit values ds and small naturals m, a
RECURSIVE MulAddCarry(_, _, _)
MulAddCarry(ds, m, carry) ==
    IF ds = <<>> THEN NatDigits(carry)
    ELSE LET x == ds[Len(ds)] * m + carry
         IN Append(MulAddCarry(SubSeq(ds, 1, Len(ds) - 1), m, x \div 10), x % 10)

MulAdd(ds, m, a) == StripLeadingZeros(MulAddCarry(ds, m, a))

\* -1, 0, 1 as the digit sequence a is below, equal to, above b
\* (same length, compared from the most significant digit)
FirstDifference(a, b) ==
    CHOOSE i \in DOMAIN a : a[i] # b[i] /\ \A j \in 1..(i - 1) : a[j] = b[j]

CmpDigits(a, b) ==
    IF a = b THEN 0
    ELSE IF a[FirstDifference(a, b)] < b[FirstDifference(a, b)] THEN -1
    ELSE 1

CmpInt(a, b) ==
    IF Len(a) < Len(b) THEN -1
    ELSE IF Len(a) > Len(b) THEN 1
    ELSE CmpDigits(a, b)

CmpFrac(a, b) ==
    LET n == IF Len(a) > Len(b) THEN Len(a) ELSE Len(b)
    IN CmpDigits(a \o Zeros(n - Len(a)), b \o Zeros(n - Len(b)))

CmpMag(x, y) ==
    LET c == CmpInt(x.int, y.int)
    IN IF c # 0 THEN c ELSE CmpFrac(x.frac, y.frac)

\* -1, 0, 1 as the finite number x is below, equal to, above y
NumCmp(x, y) ==
    IF x.neg /\ ~y.neg THEN -1
    ELSE IF ~x.neg /\ y.neg THEN 1
    ELSE IF x.neg THEN CmpMag(y, x)
    ELSE CmpMag(x, y)

NumLT(x, y) == NumCmp(x, y) < 0
NumGE(x, y) == NumCmp(x, y) >= 0
NumGT(x, y) == NumCmp(x, y) > 0

\* Number.isInteger(x), and x >= 0
IsInteger(x) == IsFinite(x) /\ x.frac = <<>>
IsNonNegative(x) == IsFinite(x) /\ ~x.neg

\* x * 10^e for a finite x and a natural e
ShiftLeft(x, e) ==
    LET f == x.frac \o Zeros(IF e > Len(x.frac) THEN e - Len(x.frac) ELSE 0)
    IN MakeFin(x.neg, x.int \o SubSeq(f, 1, e), SubSeq(f, e + 1, Len(f)))

\* x / 10^e for a finite x and a natural e
ShiftRight(x, e) ==
    LET i == Zeros(IF e > Len(x.int) THEN e - Len(x.int) ELSE 0) \o x.int
    IN MakeFin(x.neg, SubSeq(i, 1, Len(i) - e),
               SubSeq(i, Len(i) - e + 1, Len(i)) \o x.frac)

\* a + b + carry for digit sequences of one length
RECURSIVE AddCarry(_, _, _)
AddCarry(a, b, carry) ==
    IF a = <<>> THEN IF carry = 0 THEN <<>> ELSE <<carry>>
    ELSE LET x == a[Len(a)] + b[Len(b)] + carry
         IN Append(AddCarry(SubSeq(a, 1, Len(a) - 1), SubSeq(b, 1, Len(b) - 1),
                            x \div 10),
                   x % 10)

\* a - b - borrow for digit sequences of one length, a not below b
RECURSIVE SubBorrow(_, _, _)
SubBorrow(a, b, borrow) ==
    IF a = <<>> THEN <<>>
    ELSE LET x == a[Len(a)] - b[Len(b)] - borrow
         IN Append(SubBorrow(SubSeq(a, 1, Len(a) - 1), SubSeq(b, 1, Len(b) - 1),
                             IF x < 0 THEN 1 ELSE 0),
                   x % 10)

\* x + y for finite numbers whose sum a double holds exactly
NumAdd(x, y) ==
    LET f == IF Len(x.frac) > Len(y.frac) THEN Len(x.frac) ELSE Len(y.frac)
        n == IF Len(x.int) > Len(y.int) THEN Len(x.int) ELSE Len(y.int)
        a == Zeros(n - Len(x.int)) \o x.int \o x.frac \o Zeros(f - Len(x.frac))
        b == Zeros(n - Len(y.int)) \o y.int \o y.frac \o Zeros(f - Len(y.frac))
        Scaled(neg, ds) ==
            MakeFin(neg, SubSeq(ds, 1, Len(ds) - f), SubSeq(ds, Len(ds) - f + 1, Len(ds)))
    IN IF x.neg = y.neg THEN Scaled(x.neg, AddCarry(a, b, 0))
       ELSE IF a = b THEN Int2Num(0)
       ELSE IF CmpDigits(a, b) > 0 THEN Scaled(x.neg, SubBorrow(a, b, 0))
       ELSE Scaled(y.neg, SubBorrow(b, a, 0))

----------------------------------------------------------------------------
(* Number(value) *)

\* the first index of s holding a member of cs, or 0
IndexOf(s, cs) ==
    IF \E i \in DOMAIN s : s[i] \in cs
    THEN CHOOSE i \in DOMAIN s : s[i] \in cs /\ \A j \in 1..(i - 1) : s[j] \notin cs
    ELSE 0

\* the value of one digit of a radix-16, radix-8 or radix-2 literal, or 99
RadixDigit(c) ==
    IF c \in 48..57 THEN c - 48
    ELSE IF c \in 97..102 THEN c - 87
    ELSE IF c \in 65..70 THEN c - 55
    ELSE 99

RECURSIVE RadixValue(_, _)
RadixValue(s, radix) ==
    IF s = <<>> THEN <<>>
    ELSE MulAdd(RadixValue(SubSeq(s, 1, Len(s) - 1), radix), radix,
                RadixDigit(s[Len(s)]))

\* "Infinity"
INFINITY_LITERAL == <<73, 110, 102, 105, 110, 105, 116, 121>>

\* a finite magnitude, or Infinity when it is beyond the largest double
\* and zero when it is below the smallest
ToDouble(x) ==
    IF Len(x.int) > 309 THEN Inf(x.neg)
    ELSE IF x.int = <<>> /\ Len(x.frac) > 324 /\ SubSeq(x.frac, 1, 324) = Zeros(324)
    THEN Fin(x.neg, <<>>, <<>>)
    ELSE x

\* StrDecimalLiteral without its sign: digits, optional fraction, optional exponent
DecimalLiteral(neg, s) ==
    LET e == IndexOf(s, {69, 101})
        mant == IF e = 0 THEN s ELSE SubSeq(s, 1, e - 1)
        expo == IF e = 0 THEN <<>> ELSE SubSeq(s, e + 1, Len(s))
        eneg == expo # <<>> /\ expo[1] = 45
        edig == IF expo # <<>> /\ expo[1] \in {43, 45} THEN Tail(expo) ELSE expo
        dot == IndexOf(mant, {46})
        ip == IF dot = 0 THEN mant ELSE SubSeq(mant, 1, dot - 1)
        fp == IF dot = 0 THEN <<>> ELSE SubSeq(mant, dot + 1, Len(mant))
        ev == LET d == StripLeadingZeros(DigitValues(edig))
              IN IF Len(d) > 3 THEN 1000 ELSE DigitsNat(d)
        m == MakeFin(neg, DigitValues(ip), DigitValues(fp))
    IN IF ~(AllDigits(ip) /\ AllDigits(fp) /\ (ip # <<>> \/ fp # <<>>)) THEN NaN
       ELSE IF e # 0 /\ ~IsDigitString(edig) THEN NaN
       ELSE IF e = 0 THEN ToDouble(m)
       ELSE IF eneg THEN ToDouble(ShiftRight(m, ev))
       ELSE ToDouble(ShiftLeft(m, ev))

\* StringToNumber
StringToNumber(str) ==
    LET s == Trim(str)
        radix == IF Len(s) >= 2 /\ s[1] = 48
                 THEN (IF s[2] \in {88, 120} THEN 16
                       ELSE IF s[2] \in {79, 111} THEN 8
                       ELSE IF s[2] \in {66, 98} THEN 2 ELSE 0)
                 ELSE 0
        signed == s # <<>> /\ s[1] \in {43, 45}
        neg == s # <<>> /\ s[1] = 45
        rest == IF signed THEN Tail(s) ELSE s
    IN IF s = <<>> THEN Fin(FALSE, <<>>, <<>>)
       ELSE IF radix # 0
       THEN (IF Len(s) > 2 /\ \A i \in 3..Len(s) : RadixDigit(s[i]) < radix
             THEN ToDouble(Fin(FALSE, RadixValue(SubSeq(s, 3, Len(s)), radix), <<>>))
             ELSE NaN)
       ELSE IF rest = INFINITY_LITERAL THEN Inf(neg)
       ELSE DecimalLiteral(neg, rest)

\* Number(value): ToNumber.  An array goes through join(","), so only an
\* empty array or one of a single element can give a number; a plain object
\* gives "[object Object]"; a Date gives its time value.
RECURSIVE ToNumber(_)
ToNumber(v) ==
    IF v.t = "undefined" THEN NaN
    ELSE IF v.t = "null" THEN Fin(FALSE, <<>>, <<>>)
    ELSE IF v.t = "boolean"
    THEN (IF v.b THEN Fin(FALSE, <<1>>, <<>>) ELSE Fin(FALSE, <<>>, <<>>))
    ELSE IF v.t = "number" THEN v
    ELSE IF v.t = "string" THEN StringToNumber(v.s)
    ELSE IF v.c = "Date" THEN (IF v.valid THEN v.time ELSE NaN)
    ELSE IF v.c = "Array"
    THEN (IF Len(v.items) = 0 THEN Fin(FALSE, <<>>, <<>>)
          ELSE IF Len(v.items) > 1 THEN NaN
          ELSE LET x == v.items[1]
               IN IF IsNullish(x) THEN Fin(FALSE, <<>>, <<>>)
                  ELSE IF x.t \in {"number", "string"} THEN ToNumber(x)
                  ELSE IF x.t = "object" /\ x.c = "Array" THEN ToNumber(x)
                  ELSE NaN)
    ELSE NaN

----------------------------------------------------------------------------
(* Date: a time value in milliseconds since the epoch, or NaN *)

\* 8.64e15, the largest time value
MAX_TIME_DIGITS == <<8, 6, 4>> \o Zeros(13)

\* TimeClip(ToIntegerOrInfinity(x))
TimeClip(x) ==
    IF ~IsFinite(x) THEN NaN
    ELSE IF CmpInt(x.int, MAX_TIME_DIGITS) > 0 THEN NaN
    ELSE Fin(x.neg, x.int, <<>>)

\* new Date(value) for a number
DateOfTime(x) ==
    [t |-> "object", c |-> "Date", valid |-> IsFinite(TimeClip(x)), time |-> TimeClip(x)]

InvalidDate == DateOfTime(NaN)

IsDate(v) == v.t = "object" /\ v.c = "Date"

\* quotient and remainder of the digit sequence ds, of at most sixteen
\* digits, by a divisor that is a multiple of 10^5 below 2 * 10^8: the long
\* division in the groups of digits above 10^11, above 10^5 and below
DivMod(ds, d) ==
    LET Group(from, to) ==
            IF to < 1 THEN 0 ELSE DigitsNat(SubSeq(ds, IF from < 1 THEN 1 ELSE from, to))
        high == Group(Len(ds) - 16, Len(ds) - 11)
        cur == (high % (d \div 100000)) * 1000000 + Group(Len(ds) - 10, Len(ds) - 5)
    IN [q |-> (high \div (d \div 100000)) * 1000000 + cur \div (d \div 100000),
        r |-> (cur % (d \div 100000)) * 100000 + Group(Len(ds) - 4, Len(ds))]

msPerDay == 86400 * 1000
msPerMinute == 60 * 1000

\* Day(t) and TimeWithinDay(t) of a time value
SplitTime(x) ==
    LET p == DivMod(x.int, msPerDay)
    IN IF ~x.neg THEN [day |-> p.q, ms |-> p.r]
       ELSE IF p.r = 0 THEN [day |-> -p.q, ms |-> 0]
       ELSE [day |-> -p.q - 1, ms |-> msPerDay - p.r]

\* the time value of a day number and the milliseconds within it
JoinTime(day, ms) ==
    LET d == day + ms \div msPerDay
        m == ms % msPerDay
        mag == IF d >= 0 THEN MulAdd(MulAdd(NatDigits(d), 86400, 0), 1000, m)
               ELSE MulAdd(MulAdd(NatDigits(-d - 1), 86400, 0), 1000, msPerDay - m)
    IN IF d >= 0 THEN Fin(FALSE, mag, <<>>) ELSE Fin(TRUE, mag, <<>>)

\* LocalTime(t): the local day number and milliseconds within it
LocalSplit(x) ==
    LET u == SplitTime(x)
        m == u.ms + tz * msPerMinute
    IN [day |-> u.day + m \div msPerDay, ms |-> m % msPerDay]

\* year, month (1..12) and day of month of a day number
CivilFromDays(day) ==
    LET z == day + 719468
        era == z \div 146097
        doe == z - era * 146097
        yoe == (doe - doe \div 1460 + doe \div 36524 - doe \div 146096) \div 365
        doy == doe - (365 * yoe + yoe \div 4 - yoe \div 100)
        mp == (5 * doy + 2) \div 153
        d == doy - (153 * mp + 2) \div 5 + 1
        m == IF mp < 10 THEN mp + 3 ELSE mp - 9
    IN [year |-> yoe + era * 400 + (IF m <= 2 THEN 1 ELSE 0), month |-> m, day |-> d]

\* the day number of a year, month (1..12) and day of month
DaysFromCivil(year, month, dom) ==
    LET y == IF month <= 2 THEN year - 1 ELSE year
        era == y \div 400
        yoe == y - era * 400
        mp == IF month > 2 THEN month - 3 ELSE month + 9
        doy == (153 * mp + 2) \div 5 + dom - 1
        doe == yoe * 365 + yoe \div 4 - yoe \div 100 + doy
    IN era * 146097 + doe - 719468

getFullYear(date) == CivilFromDays(LocalSplit(date.time).day).year
getMonth(date) == CivilFromDays(LocalSplit(date.time).day).month - 1
getDate(date) == CivilFromDays(LocalSplit(date.time).day).day
getHours(date) == LocalSplit(date.time).ms \div 3600000
getMinutes(date) == (LocalSplit(date.time).ms \div msPerMinute) % 60
getSeconds(date) == (LocalSplit(date.time).ms \div 1000) % 60

\* String(value) for an integer
IntToString(n) == IF n < 0 THEN <<45>> \o DigitChars(NatDigits(-n))
                  ELSE DigitChars(NatDigits(n))

\* s.padStart(2, "0")
PadStart2(s) == IF Len(s) < 2 THEN [i \in 1..(2 - Len(s)) |-> 48] \o s ELSE s

----------------------------------------------------------------------------
(* new Date(string): the ECMAScript date-time string format.  Strings of   *)
(* any other shape are left to the implementation by ECMAScript; those the *)
(* model feeds in are letters-only and are rejected by every engine.       *)

IsLeapYear(y) == y % 4 = 0 /\ (y % 100 # 0 \/ y % 400 = 0)

DaysInMonth(y, m) ==
    IF m = 2 THEN (IF IsLeapYear(y) THEN 29 ELSE 28)
    ELSE IF m \in {4, 6, 9, 11} THEN 30 ELSE 31

Field(s, from, to) == DigitsNat(DigitValues(SubSeq(s, from, to)))

\* YYYY-MM-DD
IsDateShape(s) ==
    /\ Len(s) >= 10
    /\ AllDigits(SubSeq(s, 1, 4)) /\ s[5] = 45
    /\ AllDigits(SubSeq(s, 6, 7)) /\ s[8] = 45
    /\ AllDigits(SubSeq(s, 9, 10))
    /\ Field(s, 6, 7) \in 1..12
    /\ Field(s, 9, 10) \in 1..DaysInMonth(Field(s, 1, 4), Field(s, 6, 7))

\* THH:mm:ss
IsTimeShape(s) ==
    /\ Len(s) >= 19
    /\ s[11] = 84
    /\ AllDigits(SubSeq(s, 12, 13)) /\ s[14] = 58
    /\ AllDigits(SubSeq(s, 15, 16)) /\ s[17] = 58
    /\ AllDigits(SubSeq(s, 18, 19))
    /\ Field(s, 12, 13) \in 0..23
    /\ Field(s, 15, 16) \in 0..59
    /\ Field(s, 18, 19) \in 0..59

\* Date.parse(s): date-only forms are UTC, date-time forms without an
\* offset are local time, a trailing Z is UTC
DateParse(s) ==
    LET day == DaysFromCivil(Field(s, 1, 4), Field(s, 6, 7), Field(s, 9, 10))
        ms == Field(s, 12, 13) * 3600000 + Field(s, 15, 16) * msPerMinute
                + Field(s, 18, 19) * 1000
    IN IF IsDateShape(s) /\ Len(s) = 10 THEN JoinTime(day, 0)
       ELSE IF IsDateShape(s) /\ IsTimeShape(s) /\ Len(s) = 19
       THEN JoinTime(day, ms - tz * msPerMinute)
       ELSE IF IsDateShape(s) /\ IsTimeShape(s) /\ Len(s) = 20 /\ s[20] = 90
       THEN JoinTime(day, ms)
       ELSE NaN

----------------------------------------------------------------------------
(* lib/project-records *)

\* "未命名稿件"
UNNAMED_TITLE == <<26410, 21629, 21517, 31295, 20214>>
\* "未知投稿者"
UNKNOWN_UPLOADER == <<26410, 30693, 25237, 31295, 32773>>
\* "00:00"
ZERO_DURATION == <<48, 48, 58, 48, 48>>
\* "未知时间"
UNKNOWN_TIME == <<26410, 30693, 26102, 38388>>
\* "https:"
HTTPS_COLON == <<104, 116, 116, 112, 115, 58>>
\* "//"
SLASH_SLASH == <<47, 47>>
\* "http://"
HTTP_PREFIX == <<104, 116, 116, 112, 58, 47, 47>>
\* "https://"
HTTPS_PREFIX == <<104, 116, 116, 112, 115, 58, 47, 47>>

\* the default "https://636c-cloud1-3gy44slx114f4c73-1258339218.tcb.qcloud.la"
CLOUD_STORAGE_DOMAIN ==
    <<104, 116, 116, 112, 115, 58, 47, 47, 54, 51, 54, 99, 45, 99, 108, 111,
      117, 100, 49, 45, 51, 103, 121, 52, 52, 115, 108, 120, 49, 49, 52, 102,
      52, 99, 55, 51, 45, 49, 50, 53, 56, 51, 51, 57, 50, 49, 56, 46, 116, 99,
      98, 46, 113, 99, 108, 111, 117, 100, 46, 108, 97>>

\* `${CLOUD_STORAGE_DOMAIN}/covers/`
COVER_BASE_URL == CLOUD_STORAGE_DOMAIN \o <<47, 99, 111, 118, 101, 114, 115, 47>>

\* typeof item === "object" && item !== null
IsObjectItem(item) == item.t = "object"

\* Object.values(payload)
ObjectValues(payload) ==
    IF payload.c = "Object" THEN [i \in DOMAIN payload.props |-> payload.props[i].v]
    ELSE IF payload.c = "Array" THEN payload.items
    ELSE <<>>

\* castToRecordArray giving up on a payload that holds a non-object element
castToRecordArray_allOrNothing(payload) ==
    IF payload.t # "object" THEN <<>>
    ELSE IF \E i \in DOMAIN ObjectValues(payload) : ~IsObjectItem(ObjectValues(payload)[i])
    THEN <<>>
    ELSE ObjectValues(payload)

castToRecordArray(payload) ==
    IF IsArray(payload) THEN SelectSeq(payload.items, IsObjectItem)
    ELSE IF payload.t = "object" THEN SelectSeq(ObjectValues(payload), IsObjectItem)
    ELSE <<>>

\* pickString testing value.length without the trim
RECURSIVE pickString_noTrim(_)
pickString_noTrim(values) ==
    IF values = <<>> THEN Null
    ELSE IF IsString(values[1]) /\ Len(values[1].s) > 0 THEN values[1]
    ELSE pickString_noTrim(Tail(values))

\* the first value that is a string with a non-blank trim, or null
RECURSIVE pickString(_)
pickString(values) ==
    IF values = <<>> THEN Null
    ELSE IF IsString(values[1]) /\ Len(Trim(values[1].s)) > 0 THEN values[1]
    ELSE pickString(Tail(values))

\* Number.isFinite(parsed) ? parsed : fallback, with the default fallback 0
FiniteOrZero(parsed) == IF IsFinite(parsed) THEN parsed ELSE Fin(FALSE, <<>>, <<>>)

\* pickNumber(value) with the default fallback 0
pickNumber(value) == FiniteOrZero(ToNumber(value))

padTwoDigits(value) == PadStart2(IntToString(value))

formatDateTime(date) ==
    IntToString(getFullYear(date)) \o <<45>> \o padTwoDigits(getMonth(date) + 1)
        \o <<45>> \o padTwoDigits(getDate(date))
        \o <<32>> \o padTwoDigits(getHours(date))
        \o <<58>> \o padTwoDigits(getMinutes(date))
        \o <<58>> \o padTwoDigits(getSeconds(date))

\* 1e12
E12 == Fin(FALSE, <<1>> \o Zeros(12), <<>>)

\* value >= 1e12 ? value : value * 1000
ToTimestamp_inclusive(value) ==
    IF NumGE(value, E12) THEN value ELSE ShiftLeft(value, 3)

\* value > 1e12 ? value : value * 1000
ToTimestamp(value) == IF NumGT(value, E12) THEN value ELSE ShiftLeft(value, 3)

\* the date unless Number.isNaN(date.getTime()), and null then
ValidOrNull(date) == IF date.valid THEN date ELSE Null

\* the date unless it is null, and the other value then
OrElse(date, other) == IF date # Null THEN date ELSE other

\* the date of a number read as seconds or milliseconds, when the number
\* is finite and the date valid, or null
StampedDate(value) ==
    IF IsFinite(value) THEN ValidOrNull(DateOfTime(ToTimestamp(value))) ELSE Null

\* new Date(trimmed) when it is valid, or null
ParsedDate(trimmed) == ValidOrNull(DateOfTime(DateParse(trimmed)))

\* the branch of coerceToDate for a string, trimmed
CoerceText(trimmed) ==
    IF trimmed = <<>> THEN Null
    ELSE IF IsDigitString(trimmed)
    THEN OrElse(StampedDate(ToNumber(Str(trimmed))), ParsedDate(trimmed))
    ELSE ParsedDate(trimmed)

\* a Date, or null
coerceToDate(value) ==
    IF IsDate(value) /\ value.valid THEN value
    ELSE IF IsFinite(value) THEN StampedDate(value)
    ELSE IF IsString(value) THEN CoerceText(Trim(value.s))
    ELSE Null

timestampSources ==
    <<"publishTime", "publishTimestamp", "publishTimeMs", "publish_time",
      "pubdate", "pub_time", "pubDate", "ctime", "createTime", "created_at",
      "createdAt">>

textSources ==
    <<"publishTimeFormatted", "publishTimeRaw", "pubdateText", "pub_time_text",
      "time">>

\* the values of the named properties of item, in order
Gets(item, names) == [i \in DOMAIN names |-> Get(item, names[i])]

\* the date of the first source that is present, or null
RECURSIVE FirstDate_firstPresent(_)
FirstDate_firstPresent(sources) ==
    IF sources = <<>> THEN Null
    ELSE IF ~IsNullish(sources[1]) THEN coerceToDate(sources[1])
    ELSE FirstDate_firstPresent(Tail(sources))

\* the first of the dates that is not null, or null
FirstOf(dates) ==
    IF \A i \in DOMAIN dates : dates[i] = Null THEN Null
    ELSE dates[CHOOSE i \in DOMAIN dates :
                   dates[i] # Null /\ \A j \in 1..(i - 1) : dates[j] = Null]

\* the first date among the coerced sources, or null
FirstDate(sources) ==
    CHOOSE date \in {FirstOf(dates) :
                        dates \in {[i \in DOMAIN sources |-> coerceToDate(sources[i])]}} :
        TRUE

\* resolvePublishTime falling back to the raw timestamp sources as well
resolvePublishTime_rawSource(item) ==
    LET date == FirstDate(Gets(item, timestampSources))
        text == pickString(Gets(item, timestampSources \o textSources))
    IN IF date # Null THEN formatDateTime(date)
       ELSE IF text # Null THEN text.s
       ELSE UNKNOWN_TIME

\* resolvePublishTime falling back to the time of the call, now counting
\* seconds
resolvePublishTime_clock(item) ==
    LET date == FirstDate(Gets(item, timestampSources))
        text == pickString(Gets(item, textSources))
    IN IF date # Null THEN formatDateTime(date)
       ELSE IF text # Null THEN text.s
       ELSE formatDateTime(DateOfTime(Int2Num(now * 1000)))

\* the canonical string of the date unless it is null, and the other string
\* then
FormattedOr(date, other) == IF date # Null THEN formatDateTime(date) ELSE other

\* the text unless it is null, and the other string then
TextOr(text, other) == IF text # Null THEN text.s ELSE other

resolvePublishTime(item) ==
    CHOOSE publishTime \in
        {FormattedOr(date, TextOr(pickString(Gets(item, textSources)), UNKNOWN_TIME)) :
            date \in {FirstDate(Gets(item, timestampSources))}} : TRUE

\* `${doc._id}-${index}`
PositionalKey(id, index) == id \o <<45>> \o IntToString(index)

\* the cover URL without the protocol-relative case
CoverUrl_noProtocolRelative(item) ==
    LET coverValue == pickString(<<Get(item, "cover")>>)
    IN IF coverValue = Null THEN Null
       ELSE IF StartsWith(coverValue.s, HTTP_PREFIX)
                \/ StartsWith(coverValue.s, HTTPS_PREFIX)
       THEN coverValue
       ELSE Str(COVER_BASE_URL \o coverValue.s)

\* the cover URL of an entry, or null
CoverUrl(item) ==
    LET coverValue == pickString(<<Get(item, "cover")>>)
    IN IF coverValue = Null THEN Null
       ELSE IF StartsWith(coverValue.s, SLASH_SLASH)
       THEN Str(HTTPS_COLON \o coverValue.s)
       ELSE IF StartsWith(coverValue.s, HTTP_PREFIX)
                \/ StartsWith(coverValue.s, HTTPS_PREFIX)
       THEN coverValue
       ELSE Str(COVER_BASE_URL \o coverValue.s)

\* the key with bvid tried before id
KeyCandidate_bvidFirst(id, item, index) ==
    Coalesce(pickString(<<Get(item, "bvid"), Get(item, "id"),
                          Str(PositionalKey(id, index))>>),
             Str(PositionalKey(id, index))).s

\* the key of the entry at the (zero-based) index
KeyCandidate(id, item, index) ==
    Coalesce(pickString(<<Get(item, "id"), Get(item, "bvid"),
                          Str(PositionalKey(id, index))>>),
             Str(PositionalKey(id, index))).s

\* the body of the map callback of normalizeRecords
NormalizeItem(id, item, index) ==
    [key |-> KeyCandidate(id, item, index),
     title |-> Coalesce(pickString(<<Get(item, "title"), Str(UNNAMED_TITLE)>>),
                        Str(UNNAMED_TITLE)).s,
     uploader |-> Coalesce(pickString(<<Get(item, "uploader"), Get(item, "author"),
                                        Get(item, "up"), Str(UNKNOWN_UPLOADER)>>),
                           Str(UNKNOWN_UPLOADER)).s,
     playCount |-> pickNumber(Coalesce(Get(item, "playCount"),
                              Coalesce(Get(item, "play_count"), Get(item, "view")))),
     duration |-> Coalesce(pickString(<<Get(item, "duration"), Get(item, "length"),
                                        Str(ZERO_DURATION)>>),
                           Str(ZERO_DURATION)).s,
     publishTime |-> resolvePublishTime(item),
     danmakuCount |-> pickNumber(Coalesce(Get(item, "danmakuCount"),
                                 Coalesce(Get(item, "danmaku_count"),
                                 Coalesce(Get(item, "danmuCount"), Get(item, "reply"))))),
     coverUrl |-> CoverUrl(item),
     videoUrl |-> pickString(<<Get(item, "videourl"), Get(item, "videoUrl"),
                               Get(item, "url")>>)]

\* the ranks of a sort that turns around the elements that compare equal
SortRanks_tiesReversed(s, cmp) ==
    [i \in DOMAIN s |->
        Cardinality({j \in DOMAIN s :
                        \/ cmp[j][i] < 0
                        \/ cmp[j][i] = 0 /\ j > i})]

\* the number of elements a stable sort puts before each element of s.
\* cmp[i][j] is the comparator's result for the elements at i and j: a
\* negative one puts s[i] before s[j], and elements that compare equal keep
\* their order.
SortRanks(s, cmp) ==
    [i \in DOMAIN s |->
        Cardinality({j \in DOMAIN s :
                        \/ cmp[j][i] < 0
                        \/ cmp[j][i] = 0 /\ j < i})]

\* Array.prototype.sort with a consistent comparator: the stable sort
ArraySort(s, cmp) ==
    LET sorted == {[k \in DOMAIN s |-> s[CHOOSE i \in DOMAIN s : before[i] = k - 1]] :
                      before \in {SortRanks(s, cmp)}}
    IN CHOOSE r \in sorted : TRUE

\* the comparator with its operands exchanged: (a, b) => a.playCount - b.playCount
ByPlayCountAsc(a, b) == NumCmp(a.playCount, b.playCount)

\* (a, b) => b.playCount - a.playCount: the sign of the difference of two
\* finite numbers
ByPlayCountDesc(a, b) == NumCmp(b.playCount, a.playCount)

\* segments.map((item, index) => ...)
Flattened(d) ==
    LET segments == castToRecordArray(d.data)
    IN [i \in DOMAIN segments |-> NormalizeItem(d._id, segments[i], i - 1)]

normalizeRecords(d) ==
    CHOOSE sorted \in {ArraySort(flattened,
                                 [i \in DOMAIN flattened |->
                                     [j \in DOMAIN flattened |->
                                         ByPlayCountDesc(flattened[i], flattened[j])]]) :
                          flattened \in {Flattened(d)}} : TRUE

----------------------------------------------------------------------------
(* app/projects/[id]/page: the dashboard aggregations *)

\* x < y and x >= y for a finite x and a y that is finite or Infinity
JsLT(x, y) == IF y.k = "inf" THEN ~y.neg ELSE NumLT(x, y)
JsGE(x, y) == IF y.k = "inf" THEN y.neg ELSE NumGE(x, y)

PLAY_COUNT_RANGES ==
    <<[min |-> Int2Num(0), max |-> Int2Num(1000)],
      [min |-> Int2Num(1000), max |-> Int2Num(5000)],
      [min |-> Int2Num(5000), max |-> Int2Num(10000)],
      [min |-> Int2Num(10000), max |-> Int2Num(50000)],
      [min |-> Int2Num(50000), max |-> Int2Num(100000)],
      [min |-> Int2Num(100000), max |-> Int2Num(500000)],
      [min |-> Int2Num(500000), max |-> Int2Num(1000000)],
      [min |-> Int2Num(1000000), max |-> Inf(FALSE)]>>

\* the ranges read as closed at their upper end
FirstRange_closed(ranges, x) ==
    LET hit == {i \in DOMAIN ranges :
                   JsGE(x, ranges[i].min)
                   /\ (ranges[i].max.k = "inf" \/ NumGE(ranges[i].max, x))}
    IN IF hit = {} THEN 0 ELSE CHOOSE i \in hit : \A j \in hit : i <= j

\* the index of the first range holding x (where the loop breaks), or 0
FirstRange(ranges, x) ==
    LET hit == {i \in DOMAIN ranges : JsGE(x, ranges[i].min) /\ JsLT(x, ranges[i].max)}
    IN IF hit = {} THEN 0 ELSE CHOOSE i \in hit : \A j \in hit : i <= j

\* the ranges, each with the count of the records whose loop broke at it
playCountDistribution(vs) ==
    [i \in DOMAIN PLAY_COUNT_RANGES |->
        [min |-> PLAY_COUNT_RANGES[i].min, max |-> PLAY_COUNT_RANGES[i].max,
         count |-> Cardinality({j \in DOMAIN vs :
                       FirstRange(PLAY_COUNT_RANGES, vs[j].playCount) = i})]]

DURATION_RANGES ==
    <<[min |-> Int2Num(0), max |-> Int2Num(60)],
      [min |-> Int2Num(60), max |-> Int2Num(180)],
      [min |-> Int2Num(180), max |-> Int2Num(300)],
      [min |-> Int2Num(300), max |-> Int2Num(600)],
      [min |-> Int2Num(600), max |-> Int2Num(1800)],
      [min |-> Int2Num(1800), max |-> Inf(FALSE)]>>

\* the indices of the k-th piece of s between its colons
PieceAt(s, k) ==
    {i \in DOMAIN s : s[i] # 58 /\ Cardinality({j \in 1..i : s[j] = 58}) = k - 1}

\* s.split(":"): the pieces between the colons, in order
SplitColons(s) ==
    [k \in 1..(Cardinality({i \in DOMAIN s : s[i] = 58}) + 1) |->
        [n \in 1..Cardinality(PieceAt(s, k)) |->
            s[(CHOOSE i \in PieceAt(s, k) : \A j \in PieceAt(s, k) : i <= j) + n - 1]]]

\* x * m for a number x that is finite or infinite and a positive integer
\* m, the product one a double holds exactly
JsTimes(x, m) ==
    IF ~IsFinite(x) THEN x
    ELSE MakeFin(x.neg,
                 SubSeq(Zeros(Len(x.frac)) \o MulAdd(x.int \o x.frac, m, 0), 1,
                        Len(Zeros(Len(x.frac)) \o MulAdd(x.int \o x.frac, m, 0))
                            - Len(x.frac)),
                 SubSeq(Zeros(Len(x.frac)) \o MulAdd(x.int \o x.frac, m, 0),
                        Len(Zeros(Len(x.frac)) \o MulAdd(x.int \o x.frac, m, 0))
                            - Len(x.frac) + 1,
                        Len(Zeros(Len(x.frac)) \o MulAdd(x.int \o x.frac, m, 0))))

\* x + y for numbers that are finite or infinite: the sum of two infinities
\* of opposite signs is NaN
JsAdd(x, y) ==
    IF x = NaN \/ y = NaN THEN NaN
    ELSE IF IsFinite(x) /\ IsFinite(y) THEN NumAdd(x, y)
    ELSE IF IsFinite(x) THEN y
    ELSE IF IsFinite(y) THEN x
    ELSE IF x = y THEN x
    ELSE NaN

\* the seconds of the parts of a duration, none of them NaN
PartsToSeconds(parts) ==
    IF Len(parts) = 3
    THEN JsAdd(JsAdd(JsTimes(parts[1], 3600), JsTimes(parts[2], 60)), parts[3])
    ELSE IF Len(parts) = 2 THEN JsAdd(JsTimes(parts[1], 60), parts[2])
    ELSE Int2Num(0)

\* parts.some((part) => Number.isNaN(part)) ? 0 : the seconds of the parts
SecondsOrZero(parts) ==
    IF \E i \in DOMAIN parts : parts[i] = NaN THEN Int2Num(0) ELSE PartsToSeconds(parts)

\* sanitized.split(":").map((part) => Number(part))
DurationParts(sanitized) ==
    [k \in DOMAIN SplitColons(sanitized) |-> StringToNumber(SplitColons(sanitized)[k])]

parseDurationToSeconds(duration) ==
    IF Trim(duration) = <<>> THEN Int2Num(0)
    ELSE SecondsOrZero(DurationParts(Trim(duration)))

\* the index of the first duration range holding the seconds, or 0: NaN
\* and the infinities are in none, Infinity < Infinity being false
FirstDurationRange(seconds) ==
    IF IsFinite(seconds) THEN FirstRange(DURATION_RANGES, seconds) ELSE 0

\* the duration ranges, each with the count of the records whose loop
\* broke at it
durationDistribution(vs) ==
    CHOOSE distribution \in
        {[i \in DOMAIN DURATION_RANGES |->
             [min |-> DURATION_RANGES[i].min, max |-> DURATION_RANGES[i].max,
              count |-> Cardinality({j \in DOMAIN vs : broke[j] = i})]] :
            broke \in {[j \in DOMAIN vs |->
                          FirstDurationRange(parseDurationToSeconds(vs[j].duration))]}} :
        TRUE

STOP_WORDS ==
    {
     \* 的 了 是 在 我 有 和 就 不 人 都 一 一个
     <<30340>>, <<20102>>, <<26159>>, <<22312>>, <<25105>>, <<26377>>,
     <<21644>>, <<23601>>, <<19981>>, <<20154>>, <<37117>>, <<19968>>,
     <<19968, 20010>>,
     \* 上 也 很 到 说 要 去 你 会 着 没有 看 好
     <<19978>>, <<20063>>, <<24456>>, <<21040>>, <<35828>>, <<35201>>,
     <<21435>>, <<20320>>, <<20250>>, <<30528>>, <<27809, 26377>>,
     <<30475>>, <<22909>>,
     \* 自己 这 那 什么 他 她 它 们 这个 那个 为 与
     <<33258, 24049>>, <<36825>>, <<37027>>, <<20160, 20040>>, <<20182>>,
     <<22905>>, <<23427>>, <<20204>>, <<36825, 20010>>, <<37027, 20010>>,
     <<20026>>, <<19982>>,
     \* 及 等 或 从 被 把 对 让 给 但 而 如 如果
     <<21450>>, <<31561>>, <<25110>>, <<20174>>, <<34987>>, <<25226>>,
     <<23545>>, <<35753>>, <<32473>>, <<20294>>, <<32780>>, <<22914>>,
     <<22914, 26524>>,
     \* 可以 可能 应该 已经 还是 还有 只是 就是 因为 所以
     <<21487, 20197>>, <<21487, 33021>>, <<24212, 35813>>, <<24050, 32463>>,
     <<36824, 26159>>, <<36824, 26377>>, <<21482, 26159>>, <<23601, 26159>>,
     <<22240, 20026>>, <<25152, 20197>>,
     \* 然后 但是 而且 或者 虽然 不过 之后 以后 之前 以前
     <<28982, 21518>>, <<20294, 26159>>, <<32780, 19988>>, <<25110, 32773>>,
     <<34429, 28982>>, <<19981, 36807>>, <<20043, 21518>>, <<20197, 21518>>,
     <<20043, 21069>>, <<20197, 21069>>,
     \* the a an is are was were be been being have
     <<116, 104, 101>>, <<97>>, <<97, 110>>, <<105, 115>>, <<97, 114, 101>>,
     <<119, 97, 115>>, <<119, 101, 114, 101>>, <<98, 101>>,
     <<98, 101, 101, 110>>, <<98, 101, 105, 110, 103>>,
     <<104, 97, 118, 101>>,
     \* has had do does did will would could should may
     <<104, 97, 115>>, <<104, 97, 100>>, <<100, 111>>,
     <<100, 111, 101, 115>>, <<100, 105, 100>>, <<119, 105, 108, 108>>,
     <<119, 111, 117, 108, 100>>, <<99, 111, 117, 108, 100>>,
     <<115, 104, 111, 117, 108, 100>>, <<109, 97, 121>>,
     \* might must shall can need dare ought used to of
     <<109, 105, 103, 104, 116>>, <<109, 117, 115, 116>>,
     <<115, 104, 97, 108, 108>>, <<99, 97, 110>>, <<110, 101, 101, 100>>,
     <<100, 97, 114, 101>>, <<111, 117, 103, 104, 116>>,
     <<117, 115, 101, 100>>, <<116, 111>>, <<111, 102>>,
     \* in for on with at by from as into through during
     <<105, 110>>, <<102, 111, 114>>, <<111, 110>>, <<119, 105, 116, 104>>,
     <<97, 116>>, <<98, 121>>, <<102, 114, 111, 109>>, <<97, 115>>,
     <<105, 110, 116, 111>>, <<116, 104, 114, 111, 117, 103, 104>>,
     <<100, 117, 114, 105, 110, 103>>,
     \* before after above below between under again further
     <<98, 101, 102, 111, 114, 101>>, <<97, 102, 116, 101, 114>>,
     <<97, 98, 111, 118, 101>>, <<98, 101, 108, 111, 119>>,
     <<98, 101, 116, 119, 101, 101, 110>>, <<117, 110, 100, 101, 114>>,
     <<97, 103, 97, 105, 110>>, <<102, 117, 114, 116, 104, 101, 114>>,
     \* then once here there when where why how all each
     <<116, 104, 101, 110>>, <<111, 110, 99, 101>>, <<104, 101, 114, 101>>,
     <<116, 104, 101, 114, 101>>, <<119, 104, 101, 110>>,
     <<119, 104, 101, 114, 101>>, <<119, 104, 121>>, <<104, 111, 119>>,
     <<97, 108, 108>>, <<101, 97, 99, 104>>,
     \* few more most other some such no nor not only
     <<102, 101, 119>>, <<109, 111, 114, 101>>, <<109, 111, 115, 116>>,
     <<111, 116, 104, 101, 114>>, <<115, 111, 109, 101>>,
     <<115, 117, 99, 104>>, <<110, 111>>, <<110, 111, 114>>,
     <<110, 111, 116>>, <<111, 110, 108, 121>>,
     \* own same so than too very just and but if or
     <<111, 119, 110>>, <<115, 97, 109, 101>>, <<115, 111>>,
     <<116, 104, 97, 110>>, <<116, 111, 111>>, <<118, 101, 114, 121>>,
     <<106, 117, 115, 116>>, <<97, 110, 100>>, <<98, 117, 116>>,
     <<105, 102>>, <<111, 114>>,
     \* because until while about against what which who
     <<98, 101, 99, 97, 117, 115, 101>>, <<117, 110, 116, 105, 108>>,
     <<119, 104, 105, 108, 101>>, <<97, 98, 111, 117, 116>>,
     <<97, 103, 97, 105, 110, 115, 116>>, <<119, 104, 97, 116>>,
     <<119, 104, 105, 99, 104>>, <<119, 104, 111>>,
     \* this that these those am it its his her their
     <<116, 104, 105, 115>>, <<116, 104, 97, 116>>,
     <<116, 104, 101, 115, 101>>, <<116, 104, 111, 115, 101>>, <<97, 109>>,
     <<105, 116>>, <<105, 116, 115>>, <<104, 105, 115>>, <<104, 101, 114>>,
     <<116, 104, 101, 105, 114>>,
     \* my your our me him them us i you he she we
     <<109, 121>>, <<121, 111, 117, 114>>, <<111, 117, 114>>, <<109, 101>>,
     <<104, 105, 109>>, <<116, 104, 101, 109>>, <<117, 115>>, <<105>>,
     <<121, 111, 117>>, <<104, 101>>, <<115, 104, 101>>, <<119, 101>>,
     \* they ep BV bv av AV P p part Part PART
     <<116, 104, 101, 121>>, <<101, 112>>, <<66, 86>>, <<98, 118>>,
     <<97, 118>>, <<65, 86>>, <<80>>, <<112>>, <<112, 97, 114, 116>>,
     <<80, 97, 114, 116>>, <<80, 65, 82, 84>>
    }

\* 【】[]「」『』（）()《》<>"'
BRACKETS ==
    {12304, 12305, 91, 93, 12300, 12301, 12302, 12303, 65288, 65289, 40, 41,
     12298, 12299, 60, 62, 34, 39}

\* ，。！？、；：·…—-_|/\@#$%^&*+=~`
PUNCTUATION ==
    {65292, 12290, 65281, 65311, 12289, 65307, 65306, 183, 8230, 8212, 45, 95,
     124, 47, 92, 64, 35, 36, 37, 94, 38, 42, 43, 61, 126, 96}

\* s.replace(/[cs]/g, " ")
ReplaceEach(s, cs) == [i \in DOMAIN s |-> IF s[i] \in cs THEN 32 ELSE s[i]]

\* s.replace(/[cs]+/g, " ")
RECURSIVE ReplaceRuns(_, _)
ReplaceRuns(s, cs) ==
    IF s = <<>> THEN <<>>
    ELSE IF s[1] \notin cs THEN <<s[1]>> \o ReplaceRuns(Tail(s), cs)
    ELSE IF Len(s) > 1 /\ s[2] \in cs THEN ReplaceRuns(Tail(s), cs)
    ELSE <<32>> \o ReplaceRuns(Tail(s), cs)

\* s.split(" ")
RECURSIVE Split(_)
Split(s) ==
    LET at == IndexOf(s, {32})
    IN IF at = 0 THEN <<s>>
       ELSE <<SubSeq(s, 1, at - 1)>> \o Split(SubSeq(s, at + 1, Len(s)))

NonEmpty(s) == s # <<>>

\* /^[a-zA-Z]+$/.test(s)
IsLatinWord(s) == s # <<>> /\ \A i \in DOMAIN s : IsLatin(s[i])

\* /^[一-龥]+$/.test(s)
IsCJKWord(s) == s # <<>> /\ \A i \in DOMAIN s : IsCJK(s[i])

KeepWindow(word) == word \notin STOP_WORDS /\ IsCJKWord(word)

\* the inner loop stopping after its first window
Windows_firstOnly(segment, len) ==
    SelectSeq([i \in 1..(IF Len(segment) >= len THEN 1 ELSE 0)
                  |-> SubSeq(segment, i, i + len - 1)],
              KeepWindow)

\* the inner loop: the windows of one length, left to right
Windows(segment, len) ==
    SelectSeq([i \in 1..(IF Len(segment) >= len THEN Len(segment) - len + 1 ELSE 0)
                  |-> SubSeq(segment, i, i + len - 1)],
              KeepWindow)

\* the Latin branch without the stop-word test
SegmentWords_noStopWords(segment) ==
    IF IsLatinWord(segment)
    THEN (IF Len(segment) >= 2 THEN <<ToLowerCase(segment)>> ELSE <<>>)
    ELSE Windows(segment, 4) \o Windows(segment, 3) \o Windows(segment, 2)

\* the words one segment pushes
SegmentWords(segment) ==
    IF IsLatinWord(segment)
    THEN (IF Len(segment) >= 2 /\ ToLowerCase(segment) \notin STOP_WORDS
          THEN <<ToLowerCase(segment)>> ELSE <<>>)
    ELSE Windows(segment, 4) \o Windows(segment, 3) \o Windows(segment, 2)

RECURSIVE Flatten(_)
Flatten(ss) == IF ss = <<>> THEN <<>> ELSE ss[1] \o Flatten(Tail(ss))

segmentChineseText(text) ==
    LET cleanedText ==
            Trim(ReplaceRuns(ReplaceRuns(ReplaceEach(ReplaceEach(text, BRACKETS),
                                                     PUNCTUATION),
                                         48..57),
                             WhiteSpace))
        segments == SelectSeq(Split(cleanedText), NonEmpty)
    IN Flatten([i \in DOMAIN segments |-> SegmentWords(segments[i])])

\* "constructor": the one word segmentChineseText can push that a plain
\* object inherits a property for
CONSTRUCTOR == <<99, 111, 110, 115, 116, 114, 117, 99, 116, 111, 114>>

\* the loop wordFrequency[word] = (wordFrequency[word] ?? 0) + 1 over words:
\* the own properties of wordFrequency, in insertion order (the order of
\* first occurrence), each with its number of occurrences.  The inherited
\* "constructor" is a function, so adding 1 to it gives a string, never a
\* number.
CountWords(words) ==
    LET IsFirst(i) == \A j \in 1..(i - 1) : words[j] # words[i]
        firsts == SelectSeq([i \in DOMAIN words |-> i], IsFirst)
    IN [k \in DOMAIN firsts |->
           [name |-> words[firsts[k]],
            value |-> Cardinality({i \in DOMAIN words : words[i] = words[firsts[k]]}),
            number |-> words[firsts[k]] # CONSTRUCTOR]]

\* count >= 2
AtLeastTwo(entry) == entry.number /\ entry.value >= 2

\* (a, b) => b.value - a.value
ByValueDesc(a, b) == b.value - a.value

\* s.slice(0, n)
Slice(s, n) == SubSeq(s, 1, IF Len(s) < n THEN Len(s) ELSE n)

\* .map(([name, value]) => ({ name, value })).sort(...).slice(0, 100)
SortedEntries(kept) ==
    LET entries == [i \in DOMAIN kept |-> [name |-> kept[i].name, value |-> kept[i].value]]
    IN Slice(ArraySort(entries,
                       [i \in DOMAIN kept |->
                           [j \in DOMAIN kept |-> ByValueDesc(kept[i], kept[j])]]),
             100)

wordCloudData(vs) ==
    LET words == Flatten([i \in DOMAIN vs |-> segmentChineseText(vs[i].title)])
        tables == {SortedEntries(kept) :
                      kept \in {SelectSeq(CountWords(words), AtLeastTwo)}}
    IN CHOOSE data \in tables : TRUE

----------------------------------------------------------------------------
(* app/projects/[id]/page: parsePublishTime *)

\* the code unit at index i of s, or 0 beyond its end
CharAt(s, i) == IF i \in DOMAIN s THEN s[i] ELSE 0

\* the length of the longest run of code units of cs that starts at index i
RunLen(s, i, cs) ==
    LET stop == CHOOSE j \in i..(Len(s) + 1) :
                    /\ CharAt(s, j) \notin cs
                    /\ \A k \in i..(j - 1) : s[k] \in cs
    IN IF i > Len(s) THEN 0 ELSE stop - i

\* Number(group) for a group of at most nine digits
GroupValue(s, at, len) == DigitsNat(DigitValues(SubSeq(s, at, at + len - 1)))

\* s.includes(sub)
Includes(s, sub) ==
    \E i \in 1..(Len(s) - Len(sub) + 1) : SubSeq(s, i, i + Len(sub) - 1) = sub

\* the time value of local date and time fields that may lie out of their
\* ranges: MakeDate(MakeDay(year, month, date), MakeTime(...)), as UTC
MakeLocal(year, month, date, hours, minutes, seconds) ==
    JoinTime(DaysFromCivil(year + (month \div 12), (month % 12) + 1, 1) + date - 1,
             hours * 3600000 + minutes * msPerMinute + seconds * 1000
                 - tz * msPerMinute)

\* new Date(year, month, date, hours, minutes, seconds): a year from 0 to 99
\* stands for 1900 + year
NewDate(year, month, date, hours, minutes, seconds) ==
    DateOfTime(MakeLocal(IF year \in 0..99 THEN 1900 + year ELSE year,
                         month, date, hours, minutes, seconds))

\* the local fields of a date
LocalFields(date) ==
    [year |-> getFullYear(date), month |-> getMonth(date), date |-> getDate(date),
     hours |-> getHours(date), minutes |-> getMinutes(date),
     seconds |-> getSeconds(date)]

\* the seconds since the epoch at which the page was opened:
\* 2023-11-20T17:06:40Z
PAGE_OPENED_AT == 17005 * 100000

\* new Date() when the wall clock shows at seconds since the page was opened
ClockDate(at) ==
    DateOfTime(Fin(FALSE, NatDigits(PAGE_OPENED_AT + at) \o Zeros(3), <<>>))

\* step 1: /^(\d{4})-(\d{1,2})-(\d{1,2})\s+(\d{1,2}):(\d{1,2}):(\d{1,2})$/
\* from the index "from" on, with a year of "yearLen" digits; the groups,
\* or <<>> without a match
DateTimeGroups(s, from, yearLen) ==
    LET aY == from
        aM == aY + yearLen + 1
        lM == RunLen(s, aM, 48..57)
        aD == aM + lM + 1
        lD == RunLen(s, aD, 48..57)
        aW == aD + lD
        lW == RunLen(s, aW, WhiteSpace)
        aH == aW + lW
        lH == RunLen(s, aH, 48..57)
        aI == aH + lH + 1
        lI == RunLen(s, aI, 48..57)
        aS == aI + lI + 1
        lS == RunLen(s, aS, 48..57)
    IN IF /\ RunLen(s, aY, 48..57) = yearLen
          /\ CharAt(s, aM - 1) = 45 /\ lM \in 1..2
          /\ CharAt(s, aD - 1) = 45 /\ lD \in 1..2
          /\ lW >= 1 /\ lH \in 1..2
          /\ CharAt(s, aI - 1) = 58 /\ lI \in 1..2
          /\ CharAt(s, aS - 1) = 58 /\ lS \in 1..2
          /\ aS + lS = Len(s) + 1
       THEN <<GroupValue(s, aY, yearLen), GroupValue(s, aM, lM), GroupValue(s, aD, lD),
              GroupValue(s, aH, lH), GroupValue(s, aI, lI), GroupValue(s, aS, lS)>>
       ELSE <<>>

dateTimeMatch(s) == DateTimeGroups(s, 1, 4)

\* step 2: the digits-only string as seconds (ten digits) or milliseconds
\* (thirteen digits), or null
DateOfStamp(timestamp) ==
    IF NumGE(timestamp, Fin(FALSE, <<1>> \o Zeros(9), <<>>))
       /\ NumGE(Fin(FALSE, [i \in 1..10 |-> 9], <<>>), timestamp)
    THEN DateOfTime(ShiftLeft(timestamp, 3))
    ELSE IF NumGE(timestamp, Fin(FALSE, <<1>> \o Zeros(12), <<>>))
            /\ NumGE(Fin(FALSE, [i \in 1..13 |-> 9], <<>>), timestamp)
    THEN DateOfTime(timestamp)
    ELSE Null

\* step 2 for the digits-only string s
TimestampDate(s) == DateOfStamp(ToNumber(Str(s)))

\* step 3: keywordMap, in the order of its entries: 今天 昨天 昨日 前天
keywordMap ==
    <<[keyword |-> <<20170, 22825>>, offset |-> 0],
      [keyword |-> <<26152, 22825>>, offset |-> 1],
      [keyword |-> <<26152, 26085>>, offset |-> 1],
      [keyword |-> <<21069, 22825>>, offset |-> 2]>>

\* the day of the clock less offset days, at 0:00
KeywordDate(offset, clock) ==
    DateOfTime(CHOOSE time \in {MakeLocal(f.year, f.month, f.date - offset, 0, 0, 0) :
                                   f \in {LocalFields(clock)}} : TRUE)

\* "刚刚"
JUST_NOW == <<21018, 21018>>

\* step 5: /(\d{4})[-./年](\d{1,2})[-./月](\d{1,2})/: the groups of the
\* leftmost match, or <<>>
dateMatch(s) ==
    LET MonthLen(i) == RunLen(s, i + 5, 48..57)
        DayLen(i) == RunLen(s, i + 6 + MonthLen(i), 48..57)
        Matches(i) ==
            /\ \A k \in i..(i + 3) : IsDigit(CharAt(s, k))
            /\ CharAt(s, i + 4) \in {45, 46, 47, 24180}
            /\ MonthLen(i) \in 1..2
            /\ CharAt(s, i + 5 + MonthLen(i)) \in {45, 46, 47, 26376}
            /\ DayLen(i) >= 1
        hits == {i \in DOMAIN s : Matches(i)}
        at == CHOOSE i \in hits : \A j \in hits : i <= j
    IN IF hits = {} THEN <<>>
       ELSE <<GroupValue(s, at, 4), GroupValue(s, at + 5, MonthLen(at)),
              GroupValue(s, at + 6 + MonthLen(at),
                         IF DayLen(at) > 2 THEN 2 ELSE DayLen(at))>>

\* the units of step 6, in the order of the alternation:
\* 小时 天 周 月 年 分钟 分 秒
RELATIVE_UNITS ==
    <<<<23567, 26102>>, <<22825>>, <<21608>>, <<26376>>, <<24180>>,
      <<20998, 38047>>, <<20998>>, <<31186>>>>

\* step 6: /(\d+)\s*(小时|天|周|月|年|分钟|分|秒)前/: the amount and the
\* index of the unit of the leftmost match, or <<>>.  The amounts the
\* entries of the model hold have at most four digits.
relativeMatch(s) ==
    LET AmountLen(i) == RunLen(s, i, 48..57)
        UnitAt(i) == i + AmountLen(i) + RunLen(s, i + AmountLen(i), WhiteSpace)
        Units(i) ==
            {u \in DOMAIN RELATIVE_UNITS :
                /\ \A k \in DOMAIN RELATIVE_UNITS[u] :
                       CharAt(s, UnitAt(i) + k - 1) = RELATIVE_UNITS[u][k]
                /\ CharAt(s, UnitAt(i) + Len(RELATIVE_UNITS[u])) = 21069}
        hits == {i \in DOMAIN s : IsDigit(s[i]) /\ Units(i) # {}}
        at == CHOOSE i \in hits : \A j \in hits : i <= j
    IN IF hits = {} THEN <<>>
       ELSE <<GroupValue(s, at, AmountLen(at)),
              CHOOSE u \in Units(at) : \A v \in Units(at) : u <= v>>

\* the clock set back by the amount of the unit: setHours, setDate,
\* setMonth, setFullYear, setMinutes, setSeconds
RelativeDate(value, unit, clock) ==
    LET SetBack(f) ==
           CASE unit = 1 -> MakeLocal(f.year, f.month, f.date, f.hours - value,
                                      f.minutes, f.seconds)
             [] unit = 2 -> MakeLocal(f.year, f.month, f.date - value, f.hours,
                                      f.minutes, f.seconds)
             [] unit = 3 -> MakeLocal(f.year, f.month, f.date - value * 7, f.hours,
                                      f.minutes, f.seconds)
             [] unit = 4 -> MakeLocal(f.year, f.month - value, f.date, f.hours,
                                      f.minutes, f.seconds)
             [] unit = 5 -> MakeLocal(f.year - value, f.month, f.date, f.hours,
                                      f.minutes, f.seconds)
             [] unit \in {6, 7} -> MakeLocal(f.year, f.month, f.date, f.hours,
                                             f.minutes - value, f.seconds)
             [] unit = 8 -> MakeLocal(f.year, f.month, f.date, f.hours,
                                      f.minutes, f.seconds - value)
    IN DateOfTime(CHOOSE time \in {SetBack(f) : f \in {LocalFields(clock)}} : TRUE)

\* step 7: /^(\d{1,2})[-./](\d{1,2})$/: the groups, or <<>>
monthDayMatch(s) ==
    LET lM == RunLen(s, 1, 48..57)
        lD == RunLen(s, lM + 2, 48..57)
    IN IF /\ lM \in 1..2 /\ CharAt(s, lM + 1) \in {45, 46, 47}
          /\ lD \in 1..2 /\ lM + 1 + lD = Len(s)
       THEN <<GroupValue(s, 1, lM), GroupValue(s, lM + 2, lD)>>
       ELSE <<>>

\* if (date.getTime() > now.getTime()) date.setFullYear(year - 1)
NotAfter(date, clock) ==
    IF NumGT(date.time, clock.time)
    THEN DateOfTime(MakeLocal(getFullYear(clock) - 1, getMonth(date), getDate(date),
                              0, 0, 0))
    ELSE date

\* the month and day in the year of the clock, or in the year before when
\* that lies after the clock
MonthDayDate(month, day, clock) ==
    NotAfter(NewDate(getFullYear(clock), month - 1, day, 0, 0, 0), clock)

\* step 8: new Date(sanitized).  The ECMAScript date-time string format is
\* parsed by every engine.  The strings formatDateTime writes for the years
\* outside 1000..9999 that reach this step, [-]Y-MM-DD HH:MM:SS with a year
\* of one to three digits, are left to the engine: a lenient one reads them
\* as the local time they spell, a strict one rejects them.
LenientDate(negative, groups) ==
    IF groups = <<>> THEN InvalidDate
    ELSE DateOfTime(MakeLocal(IF negative THEN -groups[1] ELSE groups[1],
                              groups[2] - 1, groups[3], groups[4], groups[5],
                              groups[6]))

\* the groups of Y-MM-DD HH:MM:SS from the index "from" on, with a year of
\* one to three digits, or <<>>
ShortYearGroups(s, from, yearLen) ==
    IF yearLen \in 1..3 THEN DateTimeGroups(s, from, yearLen) ELSE <<>>

\* new Date(s) on an engine that is lenient or strict
FallbackParse(s, lenient) ==
    LET negative == CharAt(s, 1) = 45
        from == IF negative THEN 2 ELSE 1
    IN IF IsFinite(DateParse(s)) THEN DateOfTime(DateParse(s))
       ELSE IF lenient
       THEN LenientDate(negative, ShortYearGroups(s, from, RunLen(s, from, 48..57)))
       ELSE InvalidDate

\* The steps of parsePublishTime: each returns its date when its pattern
\* matched, and what the steps after it return when it did not.

\* step 1, for the groups of its match
DateTimeOr(dateTime, later) ==
    IF dateTime # <<>>
    THEN NewDate(dateTime[1], dateTime[2] - 1, dateTime[3], dateTime[4], dateTime[5],
                 dateTime[6])
    ELSE later

\* step 3, for the indexes of the keywords the string includes
KeywordOr(keywords, clock, later) ==
    IF keywords # {}
    THEN KeywordDate(keywordMap[CHOOSE k \in keywords : \A j \in keywords : k <= j].offset,
                     clock)
    ELSE later

\* step 5, for the groups of its match
DateOr(date, later) ==
    IF date # <<>> THEN NewDate(date[1], date[2] - 1, date[3], 0, 0, 0) ELSE later

\* step 6, for the amount and the unit of its match
RelativeOr(relative, clock, later) ==
    IF relative # <<>> THEN RelativeDate(relative[1], relative[2], clock) ELSE later

\* step 7, for the groups of its match
MonthDayOr(monthDay, clock, later) ==
    IF monthDay # <<>> THEN MonthDayDate(monthDay[1], monthDay[2], clock) ELSE later

\* the steps for the trimmed string, which is not empty
ParseSanitized(sanitized, clock, lenient) ==
    DateTimeOr(dateTimeMatch(sanitized),
      OrElse(IF IsDigitString(sanitized) THEN TimestampDate(sanitized) ELSE Null,
        KeywordOr({k \in DOMAIN keywordMap : Includes(sanitized, keywordMap[k].keyword)},
                  clock,
          IF sanitized = JUST_NOW THEN clock
          ELSE DateOr(dateMatch(sanitized),
                 RelativeOr(relativeMatch(sanitized), clock,
                   MonthDayOr(monthDayMatch(sanitized), clock,
                     ValidOrNull(FallbackParse(sanitized, lenient))))))))

\* parsePublishTime(publishTime), the wall clock showing at seconds since
\* the page was opened, on an engine that is lenient or strict: a Date, or
\* null
parsePublishTime(publishTime, at, lenient) ==
    IF publishTime = <<>> \/ publishTime = UNKNOWN_TIME THEN Null
    ELSE IF Trim(publishTime) = <<>> THEN Null
    ELSE ParseSanitized(Trim(publishTime), ClockDate(at), lenient)

----------------------------------------------------------------------------
(* DashboardContent: the rankings and the scatter chart *)

\* slice(0, 20)
TOP_N == 20

\* [...videos].sort((a, b) => a.playCount - b.playCount).slice(0, 20)
top20ByPlayCount_ascending(vs) ==
    Slice(ArraySort(vs, [i \in DOMAIN vs |->
                            [j \in DOMAIN vs |-> ByPlayCountAsc(vs[i], vs[j])]]),
          TOP_N)

\* [...videos].sort((a, b) => b.playCount - a.playCount).slice(0, 20)
top20ByPlayCount(vs) ==
    Slice(ArraySort(vs, [i \in DOMAIN vs |->
                            [j \in DOMAIN vs |-> ByPlayCountDesc(vs[i], vs[j])]]),
          TOP_N)

\* `${month + 1}月${date}日 ${HH}:${MM}`
DisplayDate(parsedDate) ==
    IntToString(getMonth(parsedDate) + 1) \o <<26376>>
        \o IntToString(getDate(parsedDate)) \o <<26085, 32>>
        \o PadStart2(IntToString(getHours(parsedDate))) \o <<58>>
        \o PadStart2(IntToString(getMinutes(parsedDate)))

\* videos.map((video) => ({ ...video, parsedDate, displayDate }))
WithDate(vs, at, lenient) ==
    [i \in DOMAIN vs |->
        CHOOSE r \in {vs[i] @@ [parsedDate |-> parsedDate,
                                displayDate |-> IF parsedDate # Null
                                                THEN DisplayDate(parsedDate)
                                                ELSE vs[i].publishTime] :
                         parsedDate \in {parsePublishTime(vs[i].publishTime, at, lenient)}} :
            TRUE]

HasDate(video) == video.parsedDate # Null

\* (a, b) => b.parsedDate.getTime() - a.parsedDate.getTime()
ByDateDesc(a, b) == NumCmp(b.parsedDate.time, a.parsedDate.time)

\* the records with a date, the oldest first
top20ByDate_oldest(mapped) ==
    LET videosWithDate == SelectSeq(mapped, HasDate)
    IN Slice(ArraySort(videosWithDate,
                       [i \in DOMAIN videosWithDate |->
                           [j \in DOMAIN videosWithDate |->
                               ByDateDesc(videosWithDate[j], videosWithDate[i])]]),
             TOP_N)

\* .filter((video) => video.parsedDate !== null), sorted, slice(0, 20)
top20ByDate(mapped) ==
    LET videosWithDate == SelectSeq(mapped, HasDate)
    IN Slice(ArraySort(videosWithDate,
                       [i \in DOMAIN videosWithDate |->
                           [j \in DOMAIN videosWithDate |->
                               ByDateDesc(videosWithDate[i], videosWithDate[j])]]),
             TOP_N)

\* `${year}-${month}-${day}`, month and day padded to two digits
DateKey(parsedDate) ==
    IntToString(getFullYear(parsedDate)) \o <<45>>
        \o PadStart2(IntToString(getMonth(parsedDate) + 1)) \o <<45>>
        \o PadStart2(IntToString(getDate(parsedDate)))

\* new Date(year, parsedDate.getMonth(), parsedDate.getDate()), year being
\* parsedDate.getFullYear()
GroupDate(parsedDate) ==
    NewDate(getFullYear(parsedDate), getMonth(parsedDate), getDate(parsedDate), 0, 0, 0)

\* the entries of dateGroupMap in the order their keys were first set, for
\* the records with a date and their date keys: the key, the date of the
\* first record with the key, and the records with the key
KeyedGroups(dated, keys) ==
    LET IsFirst(i) == \A j \in 1..(i - 1) : keys[j] # keys[i]
        firsts == {i \in DOMAIN dated : IsFirst(i)}
        Nth(k) == CHOOSE i \in firsts : Cardinality({j \in firsts : j < i}) = k - 1
        Members(k) == {i \in DOMAIN dated : keys[i] = keys[Nth(k)]}
        Member(k, n) == CHOOSE i \in Members(k) :
                            Cardinality({j \in Members(k) : j < i}) = n - 1
    IN [k \in 1..Cardinality(firsts) |->
           [key |-> keys[Nth(k)],
            date |-> GroupDate(dated[Nth(k)].parsedDate),
            videos |-> [n \in 1..Cardinality(Members(k)) |-> dated[Member(k, n)]]]]

DateGroups(mapped) ==
    CHOOSE groups \in {KeyedGroups(dated,
                                   [i \in DOMAIN dated |-> DateKey(dated[i].parsedDate)]) :
                          dated \in {SelectSeq(mapped, HasDate)}} : TRUE

\* (a, b) => a[1].date.getTime() - b[1].date.getTime()
ByGroupDateAsc(a, b) == NumCmp(a.date.time, b.date.time)

\* the points of the groups, group after group
DataPoints(sortedEntries) ==
    Flatten([k \in DOMAIN sortedEntries |->
                [i \in DOMAIN sortedEntries[k].videos |->
                    [value |-> <<sortedEntries[k].date.time,
                                 sortedEntries[k].videos[i].playCount>>,
                     title |-> sortedEntries[k].videos[i].title,
                     date |-> sortedEntries[k].key]]])

\* { dates, data } of the entries as they are ordered
ChartOf(sortedEntries) ==
    [dates |-> [k \in DOMAIN sortedEntries |-> sortedEntries[k].key],
     data |-> DataPoints(sortedEntries)]

\* Object.entries(dateGroupMap).sort(...)
ScatterEntries(groups) ==
    ArraySort(groups, [i \in DOMAIN groups |->
                          [j \in DOMAIN groups |-> ByGroupDateAsc(groups[i], groups[j])]])

scatterChartData(mapped) ==
    CHOOSE r \in {ChartOf(ScatterEntries(groups)) : groups \in {DateGroups(mapped)}} : TRUE

----------------------------------------------------------------------------
(* api/chat: the system prompt *)

MAX_VIDEOS_IN_PROMPT == 50

\* "当前项目没有任何稿件，提醒用户先同步最新的数据。"
EMPTY_DIGEST ==
    <<24403, 21069, 39033, 30446, 27809, 26377, 20219, 20309, 31295,
      20214, 65292, 25552, 37266, 29992, 25143, 20808, 21516, 27493,
      26368, 26032, 30340, 25968, 25454, 12290>>

\* "未命名项目"
UNNAMED_PROJECT ==
    <<26410, 21629, 21517, 39033, 30446>>

\* the labels of the parts of a line: 序号 标题 作者 播放 弹幕 时长 发布时间
PART_LABELS ==
    <<<<24207, 21495, 58, 32>>,
      <<26631, 39064, 58, 32>>,
      <<20316, 32773, 58, 32>>,
      <<25773, 25918, 58, 32>>,
      <<24377, 24149, 58, 32>>,
      <<26102, 38271, 58, 32>>,
      <<21457, 24067, 26102, 38388, 58, 32>>>>

\* "链接: "
LINK_LABEL ==
    <<38142, 25509, 58, 32>>

\* " · "
PART_SEPARATOR ==
    <<32, 183, 32>>

\* "……其余 "
OMITTED_PREFIX ==
    <<8230, 8230, 20854, 20313, 32>>

\* " 条稿件已省略。"
OMITTED_SUFFIX ==
    <<32, 26465, 31295, 20214, 24050, 30465, 30053, 12290>>

\* the labels of the summary: 项目 ID, 项目名称, 稿件数量, 播放总量, 弹幕总量
SUMMARY_LABELS ==
    <<<<39033, 30446, 32, 73, 68, 58, 32>>,
      <<39033, 30446, 21517, 31216, 58, 32>>,
      <<31295, 20214, 25968, 37327, 58, 32>>,
      <<25773, 25918, 24635, 37327, 58, 32>>,
      <<24377, 24149, 24635, 37327, 58, 32>>>>

\* " | "
SUMMARY_SEPARATOR ==
    <<32, 124, 32>>

\* the lines before the summary: the role, the three instructions, an
\* empty line and the heading 【项目概览】
PROMPT_PREAMBLE ==
    <<<<20320, 26159, 19968, 21517, 36164, 28145, 30340, 32, 66, 105, 108,
        105, 98, 105, 108, 105, 32, 25968, 25454, 20998, 26512, 19982,
        28909, 28857, 26631, 39064, 20849, 21019, 39038, 38382, 65292,
        20855, 22791, 20869, 23481, 31574, 21010, 12289, 28909, 28857,
        25429, 25417, 19982, 32, 65, 47, 66, 32, 26631, 39064, 35843,
        20248, 32463, 39564, 12290>>,
      <<35831, 21442, 32771, 20197, 19979, 39033, 30446, 25968, 25454,
        65292, 32467, 21512, 29992, 25143, 30340, 25552, 38382, 25110,
        38656, 27714, 65292, 22312, 22238, 31572, 20013, 20570, 21040,
        65306>>,
      <<49, 41, 32, 20808, 32473, 20986, 28165, 26224, 30340, 27934, 23519,
        25110, 24314, 35758, 65292, 24341, 29992, 20855, 20307, 31295,
        20214, 25110, 25968, 25454, 20316, 20026, 20381, 25454,
        12290>>,
      <<50, 41, 32, 22914, 26524, 29992, 25143, 24076, 26395, 21019, 20316,
        26631, 39064, 65292, 35831, 19968, 27425, 32473, 20986, 32,
        51, 45, 53, 32, 20010, 19981, 21516, 26041, 21521, 30340,
        20505, 36873, 26631, 39064, 65292, 24182, 22312, 21518, 38754,
        38468, 19978, 28789, 24863, 26469, 28304, 25110, 39044, 26399,
        20154, 32676, 12290>>,
      <<51, 41, 32, 22914, 26524, 25968, 25454, 19981, 36275, 20197, 22238,
        31572, 65292, 35831, 26126, 30830, 25351, 20986, 24182, 25552,
        31034, 38656, 35201, 21516, 27493, 26356, 22810, 31295, 20214,
        12290>>,
      <<>>,
      <<12304, 39033, 30446, 27010, 35272, 12305>>>>

\* "【稿件明细（省略封面等非必要字段）】"
DETAILS_HEADING ==
    <<12304, 31295, 20214, 26126, 32454, 65288, 30465, 30053, 23553,
      38754, 31561, 38750, 24517, 35201, 23383, 27573, 65289, 12305>>

\* the digits of an integer part with a comma before every group of three
Grouped(ds) ==
    Flatten([i \in DOMAIN ds |->
                IF i > 1 /\ (Len(ds) - i + 1) % 3 = 0 THEN <<44, ds[i]>>
                ELSE <<ds[i]>>])

\* the finite number rounded to three fraction digits, a half away from zero
RoundToThousandths(x) ==
    LET kept == MakeFin(x.neg, x.int, SubSeq(x.frac, 1, 3))
    IN IF Len(x.frac) <= 3 THEN x
       ELSE IF x.frac[4] >= 5
       THEN NumAdd(Fin(x.neg, kept.int, kept.frac), Fin(x.neg, <<>>, <<0, 0, 1>>))
       ELSE kept

\* new Intl.NumberFormat("zh-CN").format(value) of a finite number: grouped
\* by three, at most three fraction digits
numberFormat(value) ==
    LET x == RoundToThousandths(value)
    IN (IF x.neg THEN <<45>> ELSE <<>>)
           \o Grouped(DigitChars(x.int))
           \o (IF x.frac = <<>> THEN <<>> ELSE <<46>> \o DigitChars(x.frac))

\* parts.join(separator)
RECURSIVE JoinRange(_, _, _, _)
JoinRange(parts, separator, lo, hi) ==
    IF lo = hi THEN parts[lo]
    ELSE JoinRange(parts, separator, lo, (lo + hi) \div 2) \o separator
             \o JoinRange(parts, separator, (lo + hi) \div 2 + 1, hi)

Join(parts, separator) ==
    IF parts = <<>> THEN <<>>
    ELSE CHOOSE joined \in {JoinRange(all, separator, 1, Len(all)) : all \in {parts}} :
             TRUE

\* the line of the record at index - 1 of limitedVideos
DigestLine(video, index) ==
    Join(<<PART_LABELS[1] \o IntToString(index),
           PART_LABELS[2] \o video.title,
           PART_LABELS[3] \o video.uploader,
           PART_LABELS[4] \o numberFormat(video.playCount),
           PART_LABELS[5] \o numberFormat(video.danmakuCount),
           PART_LABELS[6] \o video.duration,
           PART_LABELS[7] \o video.publishTime>>
             \o (IF IsString(video.videoUrl) THEN <<LINK_LABEL \o video.videoUrl.s>>
                 ELSE <<>>),
         PART_SEPARATOR)

\* the line for the records the prompt leaves out
OmissionLine(count) == OMITTED_PREFIX \o IntToString(count) \o OMITTED_SUFFIX

\* the digest of the first limit records
DigestOf(vs, limit) ==
    LET limitedVideos == Slice(vs, limit)
        lines == [i \in DOMAIN limitedVideos |-> DigestLine(limitedVideos[i], i)]
    IN IF vs = <<>> THEN EMPTY_DIGEST
       ELSE Join(IF Len(vs) > Len(limitedVideos)
                 THEN Append(lines, OmissionLine(Len(vs) - Len(limitedVideos)))
                 ELSE lines,
                 <<10>>)

buildVideoDigest(vs) == DigestOf(vs, MAX_VIDEOS_IN_PROMPT)

\* the sum the callbacks of the reduce below add for the records from index
\* lo to index hi.  The numbers are added exactly, so the sum of a range is
\* the sum of its halves.
RECURSIVE TotalRange(_, _, _, _)
TotalRange(vs, field, lo, hi) ==
    IF lo = hi THEN vs[lo][field]
    ELSE CHOOSE sum \in {NumAdd(left, right) :
                             left \in {TotalRange(vs, field, lo, (lo + hi) \div 2)},
                             right \in {TotalRange(vs, field, (lo + hi) \div 2 + 1, hi)}} :
             TRUE

\* videos.reduce((sum, video) => sum + video[field], 0)
Total(vs, field) ==
    CHOOSE sum \in {IF counted = <<>> THEN Int2Num(0)
                    ELSE NumAdd(Int2Num(0), TotalRange(counted, field, 1, Len(counted))) :
                       counted \in {vs}} : TRUE

\* the summary line over the records counted
SummaryOf(projectId, projectName, counted) ==
    Join(<<SUMMARY_LABELS[1] \o projectId,
           SUMMARY_LABELS[2] \o (IF projectName = <<>> THEN UNNAMED_PROJECT
                                 ELSE projectName),
           SUMMARY_LABELS[3] \o IntToString(Len(counted)),
           SUMMARY_LABELS[4] \o numberFormat(Total(counted, "playCount")),
           SUMMARY_LABELS[5] \o numberFormat(Total(counted, "danmakuCount"))>>,
         SUMMARY_SEPARATOR)

\* the summary over the records the digest serializes only
summaryLines_serialized(projectId, projectName, vs) ==
    SummaryOf(projectId, projectName, Slice(vs, MAX_VIDEOS_IN_PROMPT))

summaryLines(projectId, projectName, vs) == SummaryOf(projectId, projectName, vs)

buildSystemPrompt(projectId, projectName, vs) ==
    Join(PROMPT_PREAMBLE
             \o <<summaryLines(projectId, projectName, vs), <<>>, DETAILS_HEADING,
                  buildVideoDigest(vs)>>,
         <<10>>)

\* fetchProjectVideos, data being snapshot.data: the records and the name
\* of the document found, no records and the default name when none is
fetchProjectVideos(data) ==
    IF data = <<>> THEN [projectName |-> UNNAMED_PROJECT, videos |-> <<>>]
    ELSE [projectName |-> IF "name" \in DOMAIN data[1] THEN data[1].name
                          ELSE UNNAMED_PROJECT,
          videos |-> normalizeRecords(data[1])]

----------------------------------------------------------------------------
(* The raw documents the document store may hold *)

MaxEntries == 2
MaxTicks == 1
MaxCalls == 2

\* ""
T_EMPTY == <<>>
\* "  "
T_BLANK == <<32, 32>>
\* "abc"
T_ABC == <<97, 98, 99>>
\* "12345"
T_12345 == <<49, 50, 51, 52, 53>>
\* " 42 "
T_PADDED_42 == <<32, 52, 50, 32>>
\* "-3"
T_MINUS_3 == <<45, 51>>
\* "1.5"
T_1_5 == <<49, 46, 53>>
\* "1e3"
T_1E3 == <<49, 101, 51>>
\* "0x1F"
T_0X1F == <<48, 120, 49, 70>>
\* "Infinity"
T_INFINITY == <<73, 110, 102, 105, 110, 105, 116, 121>>
\* "1700000000"
T_SECONDS == <<49, 55, 48, 48, 48, 48, 48, 48, 48, 48>>
\* "1700000000000"
T_MILLIS == <<49, 55, 48, 48, 48, 48, 48, 48, 48, 48, 48, 48, 48>>
\* "2023-11-14"
T_ISO_DATE == <<50, 48, 50, 51, 45, 49, 49, 45, 49, 52>>
\* "2023-11-14T22:13:20"
T_ISO_DATE_TIME ==
    <<50, 48, 50, 51, 45, 49, 49, 45, 49, 52, 84, 50, 50, 58, 49, 51,
      58, 50, 48>>
\* "0500-01-01"
T_OLD_DATE == <<48, 53, 48, 48, 45, 48, 49, 45, 48, 49>>
\* "3:45"
T_3_45 == <<51, 58, 52, 53>>
\* "01:02:03"
T_1_02_03 == <<48, 49, 58, 48, 50, 58, 48, 51>>
\* "-1:00", "0:59", "1:00", "30:00", "90", "Infinity:00"
T_MINUS_1_00 == <<45, 49, 58, 48, 48>>
T_0_59 == <<48, 58, 53, 57>>
T_1_00 == <<49, 58, 48, 48>>
T_30_00 == <<51, 48, 58, 48, 48>>
T_90 == <<57, 48>>
T_INFINITY_00 == <<73, 110, 102, 105, 110, 105, 116, 121, 58, 48, 48>>
\* "//example.com/a.jpg"
T_COVER_RELATIVE_PROTOCOL ==
    <<47, 47, 101, 120, 97, 109, 112, 108, 101, 46, 99, 111, 109, 47,
      97, 46, 106, 112, 103>>
\* "http://e.cn/a.jpg"
T_COVER_HTTP ==
    <<104, 116, 116, 112, 58, 47, 47, 101, 46, 99, 110, 47, 97, 46, 106,
      112, 103>>
\* "https://e.cn/a.jpg"
T_COVER_HTTPS ==
    <<104, 116, 116, 112, 115, 58, 47, 47, 101, 46, 99, 110, 47, 97, 46,
      106, 112, 103>>
\* "abc.jpg"
T_COVER_FILE == <<97, 98, 99, 46, 106, 112, 103>>
\* "懒人必看美食教程"
T_TITLE_COOKING == <<25042, 20154, 24517, 30475, 32654, 39135, 25945, 31243>>
\* "美食探店vlog"
T_TITLE_VLOG == <<32654, 39135, 25506, 24215, 118, 108, 111, 103>>
\* "3天前"
T_3_DAYS_AGO == <<51, 22825, 21069>>
\* "2000年前"
T_2000_YEARS_AGO == <<50, 48, 48, 48, 24180, 21069>>
\* "the Best VLOG part"
T_TITLE_LATIN ==
    <<116, 104, 101, 32, 66, 101, 115, 116, 32, 86, 76, 79, 71, 32, 112,
      97, 114, 116>>
\* "food food the the vlog vlog vlog 一个一个"
T_TITLE_COUNTS ==
    <<102, 111, 111, 100, 32, 102, 111, 111, 100, 32, 116, 104, 101, 32,
      116, 104, 101, 32, 118, 108, 111, 103, 32, 118, 108, 111, 103, 32,
      118, 108, 111, 103, 32, 19968, 20010, 19968, 20010>>
\* "constructor constructor"
T_TITLE_CONSTRUCTOR ==
    <<99, 111, 110, 115, 116, 114, 117, 99, 116, 111, 114, 32, 99, 111,
      110, 115, 116, 114, 117, 99, 116, 111, 114>>
\* "【美食】懒人必看 EP12，一个好看的vlog"
T_TITLE_MIXED ==
    <<12304, 32654, 39135, 12305, 25042, 20154, 24517, 30475, 32, 69,
      80, 49, 50, 65292, 19968, 20010, 22909, 30475, 30340, 118, 108,
      111, 103>>
\* "a"
T_ID_A == <<97>>
\* "BV1"
T_BVID == <<66, 86, 49>>
\* "d"
T_DOC_ID == <<100>>
\* "d-1"
T_ID_POSITIONAL == <<100, 45, 49>>
\* "up主"
T_UP == <<117, 112, 20027>>
\* "https://b23.tv/x"
T_URL ==
    <<104, 116, 116, 112, 115, 58, 47, 47, 98, 50, 51, 46, 116, 118, 47,
      120>>

\* a title of 36 distinct ideographs
T_TITLE_LONG == [i \in 1..36 |-> 20500 + i]

\* 1.5, 1e12, 1e12 + 1, 1700000000000, 1e16
N_1_5 == Fin(FALSE, <<1>>, <<5>>)
N_1E12_PLUS_1 == Fin(FALSE, <<1>> \o Zeros(11) \o <<1>>, <<>>)
N_MILLIS == Fin(FALSE, <<1, 7>> \o Zeros(11), <<>>)
N_1E16 == Fin(FALSE, <<1>> \o Zeros(16), <<>>)
\* -46400000000 and -62200000000: seconds of an instant in the year 499
\* and of one in the year -2
N_YEAR_499 == Fin(TRUE, <<4, 6, 4>> \o Zeros(8), <<>>)
N_YEAR_BC == Fin(TRUE, <<6, 2, 2>> \o Zeros(8), <<>>)

\* what any property may hold: nothing usable
OddValues == {Null, Bool(TRUE), Obj(<<>>), Str(T_BLANK), Str(T_ABC)}

PlayCountSamples ==
    {0, 999, 1000, 4999, 5000, 9999, 10000, 49999, 50000, 99999, 100000,
     499999, 500000, 999999, 1000000, -5}

\* what a count property may hold
CountValues ==
    {Int2Num(n) : n \in PlayCountSamples}
        \cup {NaN, N_1_5, N_MILLIS, Inf(FALSE), Arr(<<>>), Arr(<<Int2Num(5)>>),
              DateOfTime(N_MILLIS)}
        \cup {Str(s) : s \in {T_EMPTY, T_12345, T_PADDED_42, T_MINUS_3, T_1_5,
                              T_1E3, T_0X1F, T_INFINITY}}

\* what a timestamp property may hold
TimeValues ==
    {Int2Num(1700000000), Int2Num(-5), NaN, N_1_5, E12, N_1E12_PLUS_1, N_MILLIS,
     N_1E16, N_YEAR_499, N_YEAR_BC, Inf(FALSE), DateOfTime(N_MILLIS), InvalidDate}
        \cup {Str(s) : s \in {T_EMPTY, T_SECONDS, T_MILLIS, T_ISO_DATE,
                              T_ISO_DATE_TIME, T_OLD_DATE, T_3_DAYS_AGO}}

\* the properties of the counts: the first read, and its aliases
CountNames == {"playCount", "danmakuCount"}

CountAliases == {"play_count", "view", "danmaku_count", "danmuCount", "reply"}

\* the properties of the key and of the texts
TextNames ==
    {"id", "bvid", "title", "uploader", "author", "up", "duration", "length",
     "cover", "videourl", "videoUrl", "url"} \cup Range(textSources)

\* the properties normalizeRecords reads
FieldNames ==
    CountNames \cup CountAliases \cup TextNames \cup Range(timestampSources)

\* the entries with one property
SingleFieldEntries ==
    {Obj(<<Prop(f, v)>>) : f \in FieldNames, v \in OddValues}
        \cup {Obj(<<Prop(f, v)>>) : f \in CountNames, v \in CountValues}
        \cup {Obj(<<Prop(f, v)>>) :
                 f \in CountAliases, v \in {Int2Num(5000), Int2Num(-5), Str(T_1_5)}}
        \cup {Obj(<<Prop(f, v)>>) : f \in {"publishTime", "ctime"}, v \in TimeValues}
        \cup {Obj(<<Prop(f, v)>>) :
                 f \in Range(timestampSources),
                 v \in {Int2Num(1700000000), Str(T_ISO_DATE), Str(T_3_DAYS_AGO)}}
        \cup {Obj(<<Prop(f, Str(v))>>) :
                 f \in Range(textSources),
                 v \in {T_3_DAYS_AGO, T_ISO_DATE, T_2000_YEARS_AGO}}
        \cup {Obj(<<Prop("title", Str(v))>>) :
                 v \in {T_TITLE_COOKING, T_TITLE_VLOG, T_TITLE_LATIN, T_TITLE_COUNTS,
                        T_TITLE_CONSTRUCTOR, T_TITLE_MIXED}}
        \cup {Obj(<<Prop("cover", Str(v))>>) :
                 v \in {T_COVER_RELATIVE_PROTOCOL, T_COVER_HTTP, T_COVER_HTTPS,
                        T_COVER_FILE}}
        \cup {Obj(<<Prop(f, Str(v))>>) :
                 f \in {"duration", "length"}, v \in {T_3_45, T_1_02_03}}
        \cup {Obj(<<Prop("duration", Str(v))>>) :
                 v \in {T_MINUS_1_00, T_0_59, T_1_00, T_30_00, T_90, T_INFINITY_00}}
        \cup {Obj(<<Prop(f, v)>>) :
                 f \in {"id", "bvid", "uploader", "author", "up", "videourl",
                        "videoUrl", "url"},
                 v \in {Str(T_URL), Int2Num(5)}}

\* entries with several properties
VideoA ==
    Obj(<<Prop("id", Str(T_ID_A)), Prop("title", Str(T_TITLE_COOKING)),
          Prop("uploader", Str(T_UP)), Prop("playCount", Int2Num(1000)),
          Prop("danmakuCount", Int2Num(12)), Prop("duration", Str(T_3_45)),
          Prop("publishTime", Int2Num(1700000000)),
          Prop("cover", Str(T_COVER_RELATIVE_PROTOCOL)), Prop("url", Str(T_URL))>>)
VideoB ==
    Obj(<<Prop("id", Str(T_ID_A)), Prop("bvid", Str(T_BVID)),
          Prop("title", Str(T_TITLE_VLOG)), Prop("author", Str(T_UP)),
          Prop("play_count", Str(T_12345)), Prop("reply", Str(T_1_5)),
          Prop("length", Str(T_1_02_03)), Prop("pubdate", Str(T_ISO_DATE)),
          Prop("cover", Str(T_COVER_FILE))>>)
VideoC ==
    Obj(<<Prop("id", Str(T_ID_POSITIONAL)), Prop("title", Str(T_BLANK)),
          Prop("playCount", Int2Num(-5)), Prop("publishTime", Str(T_ABC)),
          Prop("ctime", N_MILLIS), Prop("time", Str(T_3_DAYS_AGO))>>)
VideoD ==
    Obj(<<Prop("id", Int2Num(7)), Prop("bvid", Str(T_BVID)),
          Prop("title", Str(T_TITLE_COUNTS)), Prop("playCount", Null),
          Prop("play_count", Str(T_ABC)), Prop("view", Int2Num(5000)),
          Prop("danmuCount", N_1_5), Prop("time", Str(T_3_DAYS_AGO))>>)

\* an entry whose recognised properties are all empty or blank strings
BlankEntry ==
    Obj(<<Prop("title", Str(T_BLANK)), Prop("uploader", Str(T_EMPTY)),
          Prop("author", Str(T_BLANK)), Prop("playCount", Str(T_EMPTY)),
          Prop("danmakuCount", Str(T_BLANK)), Prop("duration", Str(T_EMPTY)),
          Prop("publishTime", Str(T_BLANK)), Prop("time", Str(T_EMPTY)),
          Prop("cover", Str(T_BLANK)), Prop("url", Str(T_EMPTY))>>)

\* what an element of data may be: entries, and values that are no object
Items == {Obj(<<>>), VideoA, VideoB, VideoC, Null}

ItemSeqs == UNION {[1..n -> Items] : n \in 0..MaxEntries}

\* what a keyed map holds
MapItems == {VideoA, VideoC, Null}

MapItemSeqs == UNION {[1..n -> MapItems] : n \in 0..MaxEntries}

\* a keyed map holding the items under the keys "1", "2", ...
KeyedMap(items) == Obj([i \in DOMAIN items |-> Prop(ToString(i), items[i])])

RawDoc(data) == [_id |-> T_DOC_ID, data |-> data]

\* play counts [0, 999, 1000, 4999, 1000000]
BucketScenario ==
    Arr([i \in 1..5 |->
            Obj(<<Prop("playCount", Int2Num(<<0, 999, 1000, 4999, 1000000>>[i]))>>)])

\* the same long title twice, and a third title
WordCloudScenario ==
    Arr(<<Obj(<<Prop("title", Str(T_TITLE_LONG))>>),
          Obj(<<Prop("title", Str(T_TITLE_COUNTS))>>),
          Obj(<<Prop("title", Str(T_TITLE_LONG))>>)>>)

\* twenty-three entries, two of them with a time no step parses: play
\* counts and times that repeat, in neither order
Top20Scenario ==
    Arr([i \in 1..23 |->
            Obj(<<Prop("id", Str(<<118>> \o IntToString(i))),
                  Prop("playCount", Int2Num(((i * 7) % 10) * 100)),
                  Prop("publishTime",
                       IF i \in {5, 17} THEN Str(T_ABC)
                       ELSE Int2Num(1700000000 + ((i * 5) % 9) * 43200))>>)])

RawDocs ==
    {RawDoc(d) : d \in {Undef, Null, Bool(FALSE), Int2Num(5), Str(T_ABC),
                        DateOfTime(N_MILLIS), BucketScenario, WordCloudScenario,
                        Top20Scenario}}
        \cup {RawDoc(Arr(s)) : s \in ItemSeqs}
        \cup {RawDoc(KeyedMap(s)) : s \in MapItemSeqs}
        \cup {RawDoc(Arr(<<e>>)) : e \in SingleFieldEntries \cup {BlankEntry, VideoD}}

\* minutes east of UTC
TimeZones == {0, 480}

----------------------------------------------------------------------------
(* ProjectPage *)

\* the views DashboardContent memoizes for the records it is given, computed
\* when the wall clock shows at seconds since the page was opened, on an
\* engine that is lenient or strict.  videosWithDate is the intermediate
\* result of top20ByDate, before its filter.
Views(vs, at, lenient) ==
    CHOOSE r \in {[mounted |-> TRUE,
                   playCountDistribution |-> playCountDistribution(vs),
                   durationDistribution |-> durationDistribution(vs),
                   wordCloudData |-> wordCloudData(vs),
                   top20ByPlayCount |-> top20ByPlayCount(vs),
                   videosWithDate |-> mapped,
                   top20ByDate |-> top20ByDate(mapped),
                   scatterChartData |-> scatterChartData(mapped)] :
                      mapped \in {WithDate(vs, at, lenient)}} : TRUE

\* the videos array with its elements in the opposite order
VideosAfterViews_reversed(vs, at, lenient) == [i \in DOMAIN vs |-> vs[Len(vs) + 1 - i]]

\* the videos array after DashboardContent computed its views: the sorts
\* act on the copy [...videos] and on the array videos.map(...) returns,
\* count++ on the objects { ...range, count: 0 }, and the loops over videos
\* read their elements only
VideosAfterViews(vs, at, lenient) == vs

Unmounted ==
    [mounted |-> FALSE, playCountDistribution |-> <<>>,
     durationDistribution |-> <<>>, wordCloudData |-> <<>>,
     top20ByPlayCount |-> <<>>, videosWithDate |-> <<>>, top20ByDate |-> <<>>,
     scatterChartData |-> [dates |-> <<>>, data |-> <<>>]]

\* api/chat serves no request
NoRequest == [pc |-> "idle"]

\* the chat of the page is not rendered
NoChat == [mounted |-> FALSE]

\* no component uses useCloudBaseAuth
NoAuth == [mounted |-> FALSE]

\* the Home page is not rendered
NoHome == [mounted |-> FALSE]

Init ==
    /\ doc \in RawDocs
    /\ tz \in TimeZones
    /\ now = 0
    /\ pc = "init"
    /\ videos = <<>>
    /\ prevVideos = <<>>
    /\ callTimes = <<>>
    /\ dashboard = Unmounted
    /\ chat = NoRequest
    /\ chatClient = NoChat
    /\ auth = NoAuth
    /\ home = NoHome

\* refreshData, the document found: setVideos(normalizeRecords(projectData)),
\* and the re-render that recomputes the memoized views
RefreshData ==
    /\ Len(callTimes) < MaxCalls
    /\ prevVideos' = videos
    /\ callTimes' = Append(callTimes, now)
    /\ pc' = "loaded"
    /\ \E lenient \in BOOLEAN, records \in {normalizeRecords(doc)} :
           /\ dashboard' = IF dashboard.mounted THEN Views(records, now, lenient)
                           ELSE dashboard
           /\ videos' = IF dashboard.mounted
                        THEN VideosAfterViews(records, now, lenient)
                        ELSE records
    /\ UNCHANGED <<doc, tz, now, chat, chatClient, auth, home>>

\* the dashboard tab is opened: DashboardContent mounts with the records
OpenDashboard ==
    /\ ~dashboard.mounted
    /\ \E lenient \in BOOLEAN :
           /\ dashboard' = Views(videos, now, lenient)
           /\ videos' = VideosAfterViews(videos, now, lenient)
    /\ UNCHANGED <<doc, tz, now, pc, prevVideos, callTimes, chat, chatClient, auth, home>>

\* the AI tab is selected: DashboardContent unmounts
CloseDashboard ==
    /\ dashboard.mounted
    /\ dashboard' = Unmounted
    /\ UNCHANGED <<doc, tz, now, pc, videos, prevVideos, callTimes, chat, chatClient, auth, home>>

\* time passes
Tick ==
    /\ now < MaxTicks
    /\ now' = now + 1
    /\ UNCHANGED <<doc, tz, pc, videos, prevVideos, callTimes, dashboard, chat, chatClient, auth, home>>

Next == RefreshData \/ OpenDashboard \/ CloseDashboard \/ Tick

Spec == Init /\ [][Next]_vars

----------------------------------------------------------------------------
(* api/chat: POST *)

\* fifty-two entries, every second one with a link
PromptScenario ==
    Arr([i \in 1..52 |->
            Obj(<<Prop("id", Str(<<118>> \o IntToString(i))),
                  Prop("title", Str(T_TITLE_VLOG)),
                  Prop("playCount", Int2Num(i * 3)),
                  Prop("danmakuCount", IF i = 7 THEN N_1_5 ELSE Int2Num(i))>>
                    \o (IF i % 2 = 0 THEN <<Prop("url", Str(T_URL))>> ELSE <<>>))])

\* the names a document may have: none, the empty one, "abc"
WithNames(d) == {d, d @@ [name |-> T_EMPTY], d @@ [name |-> T_ABC]}

ChatDocs == UNION {WithNames(d) : d \in RawDocs \cup {RawDoc(PromptScenario)}}

ChatInit ==
    /\ doc \in ChatDocs
    /\ tz \in TimeZones
    /\ now = 0
    /\ pc = "init"
    /\ videos = <<>>
    /\ prevVideos = <<>>
    /\ callTimes = <<>>
    /\ dashboard = Unmounted
    /\ chat = NoRequest
    /\ chatClient = NoChat
    /\ auth = NoAuth
    /\ home = NoHome

\* "未配置 DEEPSEEK_API_KEY"
API_KEY_MISSING ==
    <<26410, 37197, 32622, 32, 68, 69, 69, 80, 83, 69, 69, 75, 95, 65, 80, 73, 95, 75,
      69, 89>>
\* "projectId 必填"
PROJECT_ID_REQUIRED == <<112, 114, 111, 106, 101, 99, 116, 73, 100, 32, 24517, 22635>>
\* "messages 不能为空"
MESSAGES_EMPTY ==
    <<109, 101, 115, 115, 97, 103, 101, 115, 32, 19981, 33021, 20026, 31354>>
\* "messages 内容无效"
MESSAGES_INVALID ==
    <<109, 101, 115, 115, 97, 103, 101, 115, 32, 20869, 23481, 26080, 25928>>
\* "服务异常"
SERVICE_FAILED == <<26381, 21153, 24322, 24120>>
\* "system"
ROLE_SYSTEM == <<115, 121, 115, 116, 101, 109>>
\* "user"
ROLE_USER == <<117, 115, 101, 114>>
\* "assistant"
ROLE_ASSISTANT == <<97, 115, 115, 105, 115, 116, 97, 110, 116>>

\* a message of a request body
Message(role, content) == Obj(<<Prop("role", role), Prop("content", content)>>)

\* a request body
Body(projectId, messages) ==
    Obj(<<Prop("projectId", projectId), Prop("messages", messages)>>)

\* messages none of which passes the filters: a system message, a blank
\* one, null, one whose content is a number, one of another role
DroppedMessages ==
    <<Message(Str(ROLE_SYSTEM), Str(T_ABC)),
      Message(Str(ROLE_USER), Str(T_BLANK)),
      Null,
      Message(Str(ROLE_USER), Int2Num(5)),
      Message(Str(T_ABC), Str(T_ABC))>>

\* messages some of which pass the filters
MixedMessages ==
    <<Message(Str(ROLE_SYSTEM), Str(T_ABC)),
      Message(Str(ROLE_USER), Str(T_PADDED_42)),
      Message(Str(ROLE_ASSISTANT), Str(T_EMPTY)),
      Null,
      Obj(<<Prop("content", Str(T_ABC)), Prop("id", Int2Num(5)),
            Prop("role", Str(ROLE_ASSISTANT))>>),
      Message(Str(ROLE_USER), Str(T_BLANK)),
      Message(Str(ROLE_USER), Str(T_ABC))>>

\* the bodies request.json() may resolve with: null, a number, and objects
\* with and without projectId and messages
RequestBodies ==
    {Null,
     Int2Num(5),
     Obj(<<>>),
     Obj(<<Prop("messages", Arr(MixedMessages))>>),
     Body(Str(T_EMPTY), Arr(MixedMessages)),
     Body(Int2Num(5), Arr(MixedMessages)),
     Obj(<<Prop("projectId", Str(T_DOC_ID))>>),
     Body(Str(T_DOC_ID), Arr(<<>>)),
     Body(Str(T_DOC_ID), Str(T_ABC)),
     Body(Str(T_DOC_ID), Arr(DroppedMessages)),
     Body(Str(T_DOC_ID), Arr(MixedMessages)),
     Body(Str(T_DOC_ID), Arr(<<Message(Str(ROLE_USER), Str(T_ABC))>>))}

\* a request: whether DEEPSEEK_API_KEY is set, whether the body is JSON, and
\* the value of the body when it is
Requests ==
    {[hasKey |-> hasKey, parses |-> TRUE, body |-> body] :
        hasKey \in BOOLEAN, body \in RequestBodies}
        \cup {[hasKey |-> hasKey, parses |-> FALSE, body |-> Undef] : hasKey \in BOOLEAN}

\* typeof message?.content === "string" &&
\* (message.role === "user" || message.role === "assistant")
IsChatMessagePayload(message) ==
    /\ IsString(ReadMember(message, "content"))
    /\ ReadMember(message, "role") \in {Str(ROLE_USER), Str(ROLE_ASSISTANT)}

\* the messages of the two roles with their contents as they are
sanitizedMessages_untrimmed(messages) ==
    LET payloads == SelectSeq(messages, IsChatMessagePayload)
    IN [i \in DOMAIN payloads |->
           [role |-> Get(payloads[i], "role").s, content |-> Get(payloads[i], "content").s]]

\* messages.filter(...).map(...).filter((message) => message.content.length > 0)
sanitizedMessages(messages) ==
    LET payloads == SelectSeq(messages, IsChatMessagePayload)
        mapped == [i \in DOMAIN payloads |->
                      [role |-> Get(payloads[i], "role").s,
                       content |-> Trim(Get(payloads[i], "content").s)]]
    IN SelectSeq(mapped, LAMBDA message : Len(message.content) > 0)

\* the route has answered the request
Responded(request, status, error) ==
    [pc |-> "responded", request |-> request, status |-> status, error |-> error]

\* the route handler has thrown: request.json() rejected, or its result
\* could not be destructured
Thrown(request) == [pc |-> "threw", request |-> request]

\* POST up to its try block: the response of the check that fails, the throw
\* of request.json() or of the destructuring, or null when the request
\* passes
Checked(request) ==
    IF ~request.hasKey THEN Responded(request, 500, API_KEY_MISSING)
    ELSE IF ~request.parses \/ IsNullish(request.body) THEN Thrown(request)
    ELSE IF \/ ~Truthy(ReadMember(request.body, "projectId"))
            \/ ~IsString(ReadMember(request.body, "projectId"))
    THEN Responded(request, 400, PROJECT_ID_REQUIRED)
    ELSE IF \/ ~IsArray(ReadMember(request.body, "messages"))
            \/ Len(ReadMember(request.body, "messages").items) = 0
    THEN Responded(request, 400, MESSAGES_EMPTY)
    ELSE IF sanitizedMessages(ReadMember(request.body, "messages").items) = <<>>
    THEN Responded(request, 400, MESSAGES_INVALID)
    ELSE Null

\* error instanceof Error ? error.message : "服务异常"
Caught(request, thrown) ==
    Responded(request, 500, IF thrown.error THEN thrown.message ELSE SERVICE_FAILED)

\* the completion request: the route at openai.chat.completions.create
CompletionOf(request, fetched, systemPrompt) ==
    [pc |-> "completing",
     request |-> request,
     projectId |-> ReadMember(request.body, "projectId").s,
     projectName |-> fetched.projectName,
     videos |-> fetched.videos,
     systemPrompt |-> systemPrompt,
     messages |-> <<[role |-> ROLE_SYSTEM, content |-> systemPrompt]>>
                      \o sanitizedMessages(ReadMember(request.body, "messages").items)]

\* buildSystemPrompt({ projectId, projectName, videos }) and the call
CompletionWith(request, fetched) ==
    CHOOSE r \in {CompletionOf(request, fetched, systemPrompt) :
                     systemPrompt \in
                         {buildSystemPrompt(ReadMember(request.body, "projectId").s,
                                            fetched.projectName, fetched.videos)}} : TRUE

\* the try block up to the call of openai.chat.completions.create, data
\* being snapshot.data
Completion(request, data) ==
    CHOOSE r \in {CompletionWith(request, fetched) :
                     fetched \in {fetchProjectVideos(data)}} : TRUE

\* POST: the request is checked; when it passes, the document is fetched,
\* found or not, and the system prompt is built for the completion request,
\* or the fetch throws
Post ==
    /\ chat.pc = "idle"
    /\ \E request \in Requests :
           IF Checked(request) # Null
           THEN chat' = Checked(request)
           ELSE \/ \E data \in {<<>>, <<doc>>} : chat' = Completion(request, data)
                \/ \E thrown \in {ThrownError(T_ABC), ThrownValue} :
                       chat' = Caught(request, thrown)
    /\ UNCHANGED <<doc, tz, now, pc, videos, prevVideos, callTimes, dashboard,
                   chatClient, auth, home>>

ChatNext == Post

ChatSpec == ChatInit /\ [][ChatNext]_vars

----------------------------------------------------------------------------
(* Properties of the normalizer *)

Loaded == pc = "loaded"

\* the object-typed elements of doc.data, in order
ObjectEntries ==
    IF doc.data.t = "object" THEN SelectSeq(ObjectValues(doc.data), IsObjectItem)
    ELSE <<>>

\* the number of indices of s holding x
Occurrences(s, x) == Cardinality({i \in DOMAIN s : s[i] = x})

\* s and r hold the same elements, each as often
SameElements(s, r) ==
    \A left \in {s}, right \in {r} :
        /\ Len(left) = Len(right)
        /\ \A i \in DOMAIN left :
               Occurrences(left, left[i]) = Occurrences(right, left[i])

\* C1: the sequence normalizeRecords returns is sorted by playCount,
\* descending: of two adjacent records the first has the playCount that is
\* greater or equal.
C1_SortedByPlayCount ==
    Loaded =>
        \A i \in 1..(Len(videos) - 1) :
            NumGE(videos[i].playCount, videos[i + 1].playCount)

\* a document whose entries come in another order than the one returned
C1_Witness ==
    /\ Loaded
    /\ Len(videos) >= 2
    /\ \E i \in 1..(Len(videos) - 1) :
           NumLT(Flattened(doc)[i].playCount, Flattened(doc)[i + 1].playCount)

\* C2: no two records of the sequence normalizeRecords returns have the
\* same key.
C2_UniqueKeys ==
    Loaded =>
        \A i, j \in DOMAIN videos : i # j => videos[i].key # videos[j].key

\* C3: the normalized playCount and danmakuCount of every record are
\* non-negative integers.
C3_NonNegativeIntegers ==
    Loaded =>
        \A i \in DOMAIN videos :
            /\ IsInteger(videos[i].playCount) /\ IsNonNegative(videos[i].playCount)
            /\ IsInteger(videos[i].danmakuCount) /\ IsNonNegative(videos[i].danmakuCount)

\* C4: normalizeRecords returns the empty sequence for a data payload that
\* is neither an array nor an object, and otherwise one record for each
\* object-typed element, the record that element gets when the elements
\* that are no objects are left out; the other elements are skipped.
C4_MalformedInputTolerated ==
    Loaded =>
        /\ doc.data.t # "object" => videos = <<>>
        /\ SameElements(videos,
                        [k \in DOMAIN ObjectEntries |->
                            NormalizeItem(doc._id, ObjectEntries[k], k - 1)])

\* an array holding an entry after an element that is no object
C4_Witness ==
    /\ Loaded
    /\ IsArray(doc.data)
    /\ Len(doc.data.items) = 2
    /\ ~IsObjectItem(doc.data.items[1])
    /\ Len(videos) = 1

\* -MM-DD HH:MM:SS
IsTimeTail(s) ==
    /\ Len(s) = 15
    /\ s[1] = 45 /\ AllDigits(SubSeq(s, 2, 3))
    /\ s[4] = 45 /\ AllDigits(SubSeq(s, 5, 6))
    /\ s[7] = 32 /\ AllDigits(SubSeq(s, 8, 9))
    /\ s[10] = 58 /\ AllDigits(SubSeq(s, 11, 12))
    /\ s[13] = 58 /\ AllDigits(SubSeq(s, 14, 15))

\* YYYY-MM-DD HH:MM:SS
IsCanonicalTime(s) ==
    Len(s) = 19 /\ AllDigits(SubSeq(s, 1, 4)) /\ IsTimeTail(SubSeq(s, 5, 19))

\* the year in decimal, with a minus sign when negative and without
\* padding, then -MM-DD HH:MM:SS
IsFormattedTime(s) ==
    /\ Len(s) > 15
    /\ IsTimeTail(SubSeq(s, Len(s) - 14, Len(s)))
    /\ LET year == SubSeq(s, 1, Len(s) - 15)
       IN IsDigitString(year) \/ (year[1] = 45 /\ IsDigitString(Tail(year)))

\* the non-blank strings the textual fallback properties of the entries hold
FallbackTexts ==
    LET held == {Get(ObjectEntries[k], textSources[f]) :
                    k \in DOMAIN ObjectEntries, f \in DOMAIN textSources}
    IN {v.s : v \in {w \in held : IsString(w) /\ Trim(w.s) # <<>>}}

----------------------------------------------------------------------------
(* Properties of the aggregator *)

Mounted == dashboard.mounted

\* the counts of the buckets, in the order of the ranges
BucketCounts ==
    [i \in DOMAIN dashboard.playCountDistribution |->
        dashboard.playCountDistribution[i].count]

RECURSIVE SumSeq(_)
SumSeq(s) == IF s = <<>> THEN 0 ELSE s[1] + SumSeq(Tail(s))

\* the play counts of the records, in their order
PlayCounts == [i \in DOMAIN videos |-> videos[i].playCount]

\* C7: the counts of the eight buckets of playCountDistribution sum to the
\* number of records: each record is counted in exactly one bucket.
C7_BucketsSumToRecordCount ==
    Mounted => SumSeq(BucketCounts) = Len(videos)

\* C8, as claimed: records with the play counts 0, 999, 1000, 4999 and
\* 1000000 give the bucket counts [1,1,0,0,0,0,0,1].
C8_ClaimedBucketCounts ==
    (Mounted /\ SameElements(PlayCounts,
                             [i \in 1..5 |-> Int2Num(<<0, 999, 1000, 4999, 1000000>>[i])]))
        => BucketCounts = <<1, 1, 0, 0, 0, 0, 0, 1>>

\* C8, amended: records with the play counts 0, 999, 1000, 4999 and 1000000
\* give the bucket counts [2,2,0,0,0,0,0,1]: 0 and 999 in [0,1K), 1000 and
\* 4999 in [1K,5K), 1000000 in [1M,inf).
C8_HalfOpenBucketCounts ==
    (Mounted /\ SameElements(PlayCounts,
                             [i \in 1..5 |-> Int2Num(<<1000000, 4999, 1000, 999, 0>>[i])]))
        => BucketCounts = <<2, 2, 0, 0, 0, 0, 0, 1>>

\* the dashboard showing the five records
C8_Witness ==
    /\ Mounted
    /\ PlayCounts = [i \in 1..5 |-> Int2Num(<<1000000, 4999, 1000, 999, 0>>[i])]
    /\ SumSeq(BucketCounts) = 5

\* C9: wordCloudData holds no word of the stop-word set and no entry with a
\* frequency below 2, has at most 100 entries, and is ordered by frequency,
\* descending.
C9_WordCloudFiltered ==
    Mounted =>
        LET data == dashboard.wordCloudData
        IN /\ Len(data) <= 100
           /\ \A i \in DOMAIN data : data[i].name \notin STOP_WORDS /\ data[i].value >= 2
           /\ \A i \in 1..(Len(data) - 1) : data[i].value >= data[i + 1].value

\* the segments of the titles of the records
TitleSegments ==
    Flatten([i \in DOMAIN videos |->
                SelectSeq(Split(Trim(ReplaceRuns(videos[i].title, WhiteSpace))),
                          NonEmpty)])

\* titles holding a stop word twice and more than 100 words twice: the
\* table is cut at 100 entries of unequal frequencies
C9_Witness ==
    /\ Mounted
    /\ \E w \in STOP_WORDS : Occurrences(TitleSegments, w) >= 2
    /\ Len(dashboard.wordCloudData) = 100
    /\ dashboard.wordCloudData[1].value > dashboard.wordCloudData[100].value

\* the value is absent, or a string that is empty or holds white space only
IsBlank(value) == value = Undef \/ (IsString(value) /\ Trim(value.s) = <<>>)

\* the properties normalizeRecords reads for the fields other than the key
RecognisedNames == FieldNames \ {"id", "bvid"}

IsBlankEntry(item) == \A f \in RecognisedNames : IsBlank(Get(item, f))

\* the record but for its key holds the defaults
IsDefaultRecord(video) ==
    /\ video.title = UNNAMED_TITLE
    /\ video.uploader = UNKNOWN_UPLOADER
    /\ video.playCount = Int2Num(0)
    /\ video.danmakuCount = Int2Num(0)
    /\ video.duration = ZERO_DURATION
    /\ video.publishTime = UNKNOWN_TIME
    /\ video.coverUrl = Null
    /\ video.videoUrl = Null

\* C10: every entry whose recognised properties are absent, empty or blank
\* is normalized to the record of defaults (there are as many such records
\* as such entries), and no record has an empty title or uploader.
C10_BlankEntryDefaults ==
    Loaded =>
        /\ Cardinality({i \in DOMAIN videos : IsDefaultRecord(videos[i])})
               >= Cardinality({k \in DOMAIN ObjectEntries : IsBlankEntry(ObjectEntries[k])})
        /\ \A i \in DOMAIN videos : videos[i].title # <<>> /\ videos[i].uploader # <<>>

\* an entry whose title holds white space only, normalized
C10_Witness ==
    /\ Loaded
    /\ \E k \in DOMAIN ObjectEntries :
           /\ IsBlankEntry(ObjectEntries[k])
           /\ Get(ObjectEntries[k], "title") = Str(T_BLANK)
    /\ \E i \in DOMAIN videos : IsDefaultRecord(videos[i])

----------------------------------------------------------------------------
(* Properties of the fields of a record *)

\* the key and one field of every record, in the order of the records
KeyedField(field) == [i \in DOMAIN videos |-> <<videos[i].key, videos[i][field]>>]

\* the key the entries get, in the order of the entries
EntryKey(k) == KeyCandidate(doc._id, ObjectEntries[k], k - 1)

\* the cover URL a cover string gets: by its prefix
PrefixedCover(c) ==
    IF StartsWith(c, SLASH_SLASH) THEN Str(HTTPS_COLON \o c)
    ELSE IF StartsWith(c, HTTP_PREFIX) \/ StartsWith(c, HTTPS_PREFIX) THEN Str(c)
    ELSE Str(COVER_BASE_URL \o c)

\* C11, as claimed: the coverUrl of an entry whose cover is a non-empty
\* string is that string prefixed by its kind, and null when the cover is
\* absent, empty or no string.
C11_CoverOfNonEmptyString ==
    Loaded =>
        SameElements(KeyedField("coverUrl"),
                     [k \in DOMAIN ObjectEntries |->
                         LET c == Get(ObjectEntries[k], "cover")
                         IN <<EntryKey(k),
                              IF IsString(c) /\ c.s # <<>> THEN PrefixedCover(c.s)
                              ELSE Null>>])

\* C11, amended: the coverUrl of an entry whose cover is a string holding
\* more than white space is that string, untrimmed, prefixed by its kind
\* ("https:" before "//", nothing before "http://" and "https://", the
\* cover base URL otherwise), and null when the cover is absent, no string,
\* empty or white space only.
C11_CoverOfNonBlankString ==
    Loaded =>
        SameElements(KeyedField("coverUrl"),
                     [k \in DOMAIN ObjectEntries |->
                         LET c == Get(ObjectEntries[k], "cover")
                         IN <<EntryKey(k),
                              IF IsString(c) /\ Trim(c.s) # <<>> THEN PrefixedCover(c.s)
                              ELSE Null>>])

\* an entry with a protocol-relative cover, normalized
C11_Witness ==
    /\ Loaded
    /\ \E k \in DOMAIN ObjectEntries :
           /\ IsString(Get(ObjectEntries[k], "cover"))
           /\ StartsWith(Get(ObjectEntries[k], "cover").s, SLASH_SLASH)
    /\ \E i \in DOMAIN videos :
           videos[i].coverUrl # Null /\ StartsWith(videos[i].coverUrl.s, HTTPS_PREFIX)

----------------------------------------------------------------------------
(* Properties of the rankings and of the scatter chart *)

\* every element of top is an element of all, no more often than there
SubBag(top, all) ==
    \A i \in DOMAIN top : Occurrences(top, top[i]) <= Occurrences(all, top[i])

\* the elements of all that top leaves out
LeftOut(top, all) ==
    {all[i] : i \in {j \in DOMAIN all : Occurrences(top, all[j]) < Occurrences(all, all[j])}}

\* C12: top20ByPlayCount holds min(20, n) of the n records, ordered by play
\* count descending, and every record it leaves out has a play count that
\* is at most the play count of every record it holds.
C12_Top20ByPlayCount ==
    Mounted =>
        LET top == dashboard.top20ByPlayCount
        IN /\ Len(top) = (IF Len(videos) < 20 THEN Len(videos) ELSE 20)
           /\ SubBag(top, videos)
           /\ \A i \in 1..(Len(top) - 1) : NumGE(top[i].playCount, top[i + 1].playCount)
           /\ \A out \in LeftOut(top, videos) :
                  \A i \in DOMAIN top : NumGE(top[i].playCount, out.playCount)

\* more than twenty records: twenty ranked with differing play counts, and
\* one left out with a play count below one that is ranked
C12_Witness ==
    /\ Mounted
    /\ Len(videos) > 20
    /\ Len(dashboard.top20ByPlayCount) = 20
    /\ NumGT(dashboard.top20ByPlayCount[1].playCount,
             dashboard.top20ByPlayCount[20].playCount)
    /\ \E out \in LeftOut(dashboard.top20ByPlayCount, videos) :
           NumGT(dashboard.top20ByPlayCount[1].playCount, out.playCount)

\* the records of a ranking by date, without the two fields the ranking adds
Undated(ranked) ==
    [i \in DOMAIN ranked |->
        [f \in DOMAIN ranked[i] \ {"parsedDate", "displayDate"} |-> ranked[i][f]]]

\* the records parsePublishTime gave a date, as the ranking by date saw them
Parseable == SelectSeq(dashboard.videosWithDate, HasDate)

StartOfDay(date) ==
    MakeLocal(getFullYear(date), getMonth(date), getDate(date), 0, 0, 0)

\* the point the chart owes a record with a date
PointOf(video) ==
    [value |-> <<StartOfDay(video.parsedDate), video.playCount>>,
     title |-> video.title,
     date |-> DateKey(video.parsedDate)]

\* C14: scatterChartData holds exactly one point for every record whose
\* publishTime parsePublishTime gave a date: its x is the instant at which
\* the local day of the parsed date starts, its y the play count of the
\* record.  The points are ordered by day, ascending, and so are the dates,
\* each day once.
C14_ScatterPoints ==
    Mounted =>
        LET chart == dashboard.scatterChartData
        IN /\ SameElements(chart.data, [i \in DOMAIN Parseable |-> PointOf(Parseable[i])])
           /\ \A i \in 1..(Len(chart.data) - 1) :
                  NumGE(chart.data[i + 1].value[1], chart.data[i].value[1])
           /\ Range(chart.dates) = {chart.data[i].date : i \in DOMAIN chart.data}
           /\ \A k \in 1..(Len(chart.dates) - 1) :
                  \E i, j \in DOMAIN chart.data :
                      /\ chart.data[i].date = chart.dates[k]
                      /\ chart.data[j].date = chart.dates[k + 1]
                      /\ NumGT(chart.data[j].value[1], chart.data[i].value[1])

----------------------------------------------------------------------------
(* Properties of the system prompt *)

Completing == chat.pc = "completing"

\* the lines of a text
Lines(text) ==
    LET breaks == {i \in DOMAIN text : text[i] = 10}
        Start(k) == IF k = 1 THEN 1
                    ELSE 1 + CHOOSE i \in breaks :
                                 Cardinality({j \in breaks : j < i}) = k - 2
        End(k) == IF k = Cardinality(breaks) + 1 THEN Len(text)
                  ELSE (CHOOSE i \in breaks :
                            Cardinality({j \in breaks : j < i}) = k - 1) - 1
    IN [k \in 1..(Cardinality(breaks) + 1) |-> SubSeq(text, Start(k), End(k))]

EndsWith(s, tail) ==
    Len(tail) <= Len(s) /\ SubSeq(s, Len(s) - Len(tail) + 1, Len(s)) = tail

\* the lines of the system prompt: the summary, and those of the digest
PromptLines == Lines(chat.systemPrompt)
SummaryLine == PromptLines[Len(PROMPT_PREAMBLE) + 1]
DigestLines == SubSeq(PromptLines, Len(PROMPT_PREAMBLE) + 4, Len(PromptLines))

\* the count and the two totals of the records, as the summary ends
Totals(vs) ==
    Join(<<SUMMARY_LABELS[3] \o IntToString(Len(vs)),
           SUMMARY_LABELS[4] \o numberFormat(Total(vs, "playCount")),
           SUMMARY_LABELS[5] \o numberFormat(Total(vs, "danmakuCount"))>>,
         SUMMARY_SEPARATOR)

\* C15: the system prompt serializes the first fifty records of the
\* normalized sequence, one line each and no more; a line for the omitted
\* records follows exactly when there are more than fifty; the summary
\* gives the number of all records and the play and danmaku totals over
\* all of them.
C15_PromptDigest ==
    Completing =>
        LET vs == chat.videos
            shown == IF Len(vs) < 50 THEN Len(vs) ELSE 50
        IN /\ vs \in {<<>>, normalizeRecords(doc)}
           /\ vs = <<>> => DigestLines = <<EMPTY_DIGEST>>
           /\ vs # <<>> =>
                  /\ Len(DigestLines) = shown + (IF Len(vs) > 50 THEN 1 ELSE 0)
                  /\ \A i \in 1..shown : DigestLines[i] = DigestLine(vs[i], i)
                  /\ Len(vs) > 50 => DigestLines[51] = OmissionLine(Len(vs) - 50)
           /\ Len(vs) <= 50 =>
                  \A i \in DOMAIN DigestLines : ~StartsWith(DigestLines[i], OMITTED_PREFIX)
           /\ EndsWith(SummaryLine, Totals(vs))

\* fifty-two records: fifty lines, the line for the two omitted, and totals
\* that count the two
C15_Witness ==
    /\ Completing
    /\ Len(chat.videos) = 52
    /\ Len(DigestLines) = 51
    /\ DigestLines[51] = OmissionLine(2)
    /\ Totals(chat.videos) # Totals(Slice(chat.videos, 50))
    /\ EndsWith(SummaryLine, Totals(chat.videos))

----------------------------------------------------------------------------
(* Properties of the order of ties *)

\* the elements of s whose field has the value, in their order
Having(s, field, value) == SelectSeq(s, LAMBDA r : r[field] = value)

IsPrefix(s, r) == Len(s) <= Len(r) /\ SubSeq(r, 1, Len(s)) = s

\* C16: the sorts are stable.  normalizeRecords keeps the records of one
\* play count in the order of their entries; top20ByPlayCount keeps those of
\* one play count, and top20ByDate those of one parsed instant, in the
\* order of the records they rank; top20ByPlayCount is the first twenty
\* records of the normalized sequence.
C16_StableSorts ==
    /\ Loaded =>
           \A flattened \in {Flattened(doc)} :
               \A i \in DOMAIN videos :
                   Having(videos, "playCount", videos[i].playCount)
                       = Having(flattened, "playCount", videos[i].playCount)
    /\ Mounted =>
           /\ \A i \in DOMAIN dashboard.top20ByPlayCount :
                  IsPrefix(Having(dashboard.top20ByPlayCount, "playCount",
                                  dashboard.top20ByPlayCount[i].playCount),
                           Having(videos, "playCount",
                                  dashboard.top20ByPlayCount[i].playCount))
           /\ \A dated \in {Parseable} :
                  \A i \in DOMAIN dashboard.top20ByDate :
                      IsPrefix(Having(dashboard.top20ByDate, "parsedDate",
                                      dashboard.top20ByDate[i].parsedDate),
                               Having(dated, "parsedDate",
                                      dashboard.top20ByDate[i].parsedDate))
           /\ dashboard.top20ByPlayCount = Slice(videos, 20)

\* more than twenty records: entries of one play count that normalizeRecords
\* moved, and two records of one parsed instant ranked by date
C16_Witness ==
    /\ Loaded
    /\ Mounted
    /\ Len(videos) > 20
    /\ videos # Flattened(doc)
    /\ \E i \in 1..19 :
           /\ videos[i].playCount = videos[i + 1].playCount
           /\ dashboard.top20ByDate[i].parsedDate = dashboard.top20ByDate[i + 1].parsedDate
           /\ Undated(dashboard.top20ByDate)[i] # Undated(dashboard.top20ByDate)[i + 1]

----------------------------------------------------------------------------
(* Properties of the publish time *)

\* the number a time source holds: the number itself, or the value of a
\* string that is digits only once trimmed; null for any other value
NumericSource(value) ==
    IF IsFinite(value) THEN value
    ELSE IF IsString(value) /\ IsDigitString(Trim(value.s)) THEN ToNumber(Str(Trim(value.s)))
    ELSE Null

\* the date of a number read as milliseconds above 10^12 and as seconds up
\* to 10^12
DateOfNumber(v) == DateOfTime(IF NumGT(v, E12) THEN v ELSE ShiftLeft(v, 3))

\* the entries whose publishTime is a number, or a digits-only string, of a
\* date in the range of Date
NumericallyTimed ==
    {k \in DOMAIN ObjectEntries :
        LET v == NumericSource(Get(ObjectEntries[k], "publishTime"))
        IN v # Null /\ DateOfNumber(v).valid}

Least(indices) == CHOOSE i \in indices : \A j \in indices : i <= j

\* the indices of the timestamp fields of an entry that coerce to a date
Coercible(entry) ==
    {t \in DOMAIN timestampSources :
        coerceToDate(Get(entry, timestampSources[t])) # Null}

\* the publish time of an entry, the text fields whose index is in texts
\* being the ones that count: the formatted date of the first timestamp
\* field that coerces, else the first text field that counts, verbatim, else
\* the sentinel
ScannedTime(entry, texts) ==
    CHOOSE time \in {IF coercible # {}
                     THEN formatDateTime(coerceToDate(
                              Get(entry, timestampSources[Least(coercible)])))
                     ELSE IF texts # {} THEN Get(entry, textSources[Least(texts)]).s
                     ELSE UNKNOWN_TIME :
                         coercible \in {Coercible(entry)}} : TRUE

\* C18, as claimed: the first text field that is a non-empty string counts.
C18_FirstNonEmptyText ==
    Loaded =>
        SameElements(KeyedField("publishTime"),
                     [k \in DOMAIN ObjectEntries |->
                         <<EntryKey(k),
                           ScannedTime(ObjectEntries[k],
                               {x \in DOMAIN textSources :
                                   LET v == Get(ObjectEntries[k], textSources[x])
                                   IN IsString(v) /\ v.s # <<>>})>>])

\* C18, amended: resolvePublishTime goes through the timestamp fields in
\* the order publishTime, publishTimestamp, publishTimeMs, publish_time,
\* pubdate, pub_time, pubDate, ctime, createTime, created_at, createdAt and
\* formats the first that coerces to a date, a field before it that is
\* present and does not coerce notwithstanding; when none coerces it returns,
\* verbatim, the first of publishTimeFormatted, publishTimeRaw,
\* pubdateText, pub_time_text, time that is a string holding more than
\* white space; otherwise the sentinel.
C18_FirstNonBlankText ==
    Loaded =>
        SameElements(KeyedField("publishTime"),
                     [k \in DOMAIN ObjectEntries |->
                         <<EntryKey(k),
                           ScannedTime(ObjectEntries[k],
                               {x \in DOMAIN textSources :
                                   LET v == Get(ObjectEntries[k], textSources[x])
                                   IN IsString(v) /\ Trim(v.s) # <<>>})>>])

\* an entry whose first timestamp field does not coerce and whose later one
\* does, and one with a text field only
C18_Witness ==
    /\ Loaded
    /\ \E k \in DOMAIN ObjectEntries :
           /\ ~IsNullish(Get(ObjectEntries[k], "publishTime"))
           /\ Coercible(ObjectEntries[k]) # {}
           /\ Least(Coercible(ObjectEntries[k])) > 1
    /\ \E k \in DOMAIN ObjectEntries :
           /\ Coercible(ObjectEntries[k]) = {}
           /\ \E i \in DOMAIN videos :
                  /\ videos[i].key = EntryKey(k)
                  /\ videos[i].publishTime # UNKNOWN_TIME

\* a time value without its milliseconds
WholeSeconds(time) ==
    JoinTime(SplitTime(time).day, (SplitTime(time).ms \div 1000) * 1000)

\* the date the normalizer formats for an entry: that of the first
\* timestamp field that coerces
ResolvedDate(entry) ==
    coerceToDate(Get(entry, timestampSources[Least(Coercible(entry))]))

\* C19: for every instant the normalizer formats, parsePublishTime gives
\* the formatted string the date of that instant without its milliseconds:
\* the record of an entry with a timestamp field that coerces has, in the
\* ranking by date, the parsed date of the coerced instant in whole seconds.
C19_RoundTrip ==
    Mounted /\ Loaded =>
        \A k \in DOMAIN ObjectEntries :
            Coercible(ObjectEntries[k]) # {} =>
                \E i \in DOMAIN dashboard.videosWithDate :
                    LET video == dashboard.videosWithDate[i]
                    IN /\ video.key = EntryKey(k)
                       /\ video.publishTime = formatDateTime(ResolvedDate(ObjectEntries[k]))
                       /\ video.parsedDate # Null
                       /\ video.parsedDate.time
                              = WholeSeconds(ResolvedDate(ObjectEntries[k]).time)

----------------------------------------------------------------------------
(* Properties of the key *)

\* a string holding more than white space
IsNonBlankString(value) == IsString(value) /\ Trim(value.s) # <<>>

\* the key the claim gives the k-th of the object-typed entries
ClaimedKey(k) ==
    IF IsNonBlankString(Get(ObjectEntries[k], "id")) THEN Get(ObjectEntries[k], "id").s
    ELSE IF IsNonBlankString(Get(ObjectEntries[k], "bvid"))
    THEN Get(ObjectEntries[k], "bvid").s
    ELSE doc._id \o <<45>> \o IntToString(k - 1)

\* C20: the key of a record is the id of its entry when that is a string
\* holding more than white space, else its bvid when that is one, else the
\* id of the document, "-" and the index, from 0, of the entry among the
\* object-typed entries of the payload.
C20_KeyResolution ==
    Loaded =>
        SameElements([i \in DOMAIN videos |-> videos[i].key],
                     [k \in DOMAIN ObjectEntries |-> ClaimedKey(k)])

\* a value that is no object before an entry without id and bvid, which is
\* keyed by its index among the object-typed entries
C20_Witness ==
    /\ Loaded
    /\ doc.data.t = "object"
    /\ ObjectEntries # <<>>
    /\ Len(ObjectEntries) < Len(ObjectValues(doc.data))
    /\ ~IsObjectItem(ObjectValues(doc.data)[1])
    /\ IsNullish(Get(ObjectEntries[1], "id"))
    /\ IsNullish(Get(ObjectEntries[1], "bvid"))
    /\ \E i \in DOMAIN videos : videos[i].key = doc._id \o <<45, 48>>

----------------------------------------------------------------------------
(* Properties of the counts *)

\* the aliases of the two counts, in the order they are read
playCountAliases == <<"playCount", "play_count", "view">>
danmakuCountAliases == <<"danmakuCount", "danmaku_count", "danmuCount", "reply">>

\* the indices of the aliases the entry defines: neither undefined nor null
DefinedAliases(item, aliases) ==
    {i \in DOMAIN aliases : ~IsNullish(Get(item, aliases[i]))}

\* the value of the first alias the entry defines
FirstDefined(item, aliases) ==
    Get(item, aliases[CHOOSE i \in DefinedAliases(item, aliases) :
                          \A j \in DefinedAliases(item, aliases) : i <= j])

\* the count the claim gives an entry: 0 when no alias is defined, else the
\* number of the first defined alias when it is finite, else 0
ClaimedCount(item, aliases) ==
    IF DefinedAliases(item, aliases) = {} THEN Int2Num(0)
    ELSE IF IsFinite(ToNumber(FirstDefined(item, aliases)))
    THEN ToNumber(FirstDefined(item, aliases))
    ELSE Int2Num(0)

\* an alias after the first defined one holds a value with a finite number
LaterAliasParses(item, aliases) ==
    \E i \in DefinedAliases(item, aliases) :
        /\ \E j \in DefinedAliases(item, aliases) : j < i
        /\ IsFinite(ToNumber(Get(item, aliases[i])))
        /\ ToNumber(Get(item, aliases[i])) # Int2Num(0)

\* C21: playCount is decided by the first of playCount, play_count, view
\* that the entry defines (neither undefined nor null), and danmakuCount by
\* the first of danmakuCount, danmaku_count, danmuCount, reply: the field
\* is the number of that value when it is finite and 0 otherwise, whatever
\* the later aliases hold, and 0 when no alias is defined.
C21_FirstDefinedAlias ==
    Loaded =>
        SameElements([i \in DOMAIN videos |->
                         <<videos[i].key, videos[i].playCount, videos[i].danmakuCount>>],
                     [k \in DOMAIN ObjectEntries |->
                         <<EntryKey(k),
                           ClaimedCount(ObjectEntries[k], playCountAliases),
                           ClaimedCount(ObjectEntries[k], danmakuCountAliases)>>])

\* an entry whose first defined play count alias holds no number while a
\* later one holds 5000: the record counts 0
C21_Witness ==
    /\ Loaded
    /\ Len(ObjectEntries) = 1
    /\ DefinedAliases(ObjectEntries[1], playCountAliases) # {}
    /\ ~IsFinite(ToNumber(FirstDefined(ObjectEntries[1], playCountAliases)))
    /\ LaterAliasParses(ObjectEntries[1], playCountAliases)
    /\ videos[1].playCount = Int2Num(0)

----------------------------------------------------------------------------
(* Properties of the duration histogram *)

\* the counts of the six buckets of the duration histogram, in order
DurationCounts ==
    [i \in DOMAIN dashboard.durationDistribution |->
        dashboard.durationDistribution[i].count]

\* the lower ends of the six buckets the claim names, in seconds
CLAIMED_DURATION_BOUNDS == <<0, 60, 180, 300, 600, 1800>>

\* the values of the runs of digits a duration consists of, colons between
\* them, and the empty sequence for a string of another form
ClockFields(d) ==
    IF \A k \in DOMAIN SplitColons(d) : IsDigitString(SplitColons(d)[k])
    THEN [k \in DOMAIN SplitColons(d) |-> DigitsNat(DigitValues(SplitColons(d)[k]))]
    ELSE <<>>

\* the seconds the claim gives a duration: h * 3600 + m * 60 + s for
\* HH:MM:SS, m * 60 + s for MM:SS, 0 for any other string
ClaimedSeconds(d) ==
    IF Len(ClockFields(d)) = 3
    THEN ClockFields(d)[1] * 3600 + ClockFields(d)[2] * 60 + ClockFields(d)[3]
    ELSE IF Len(ClockFields(d)) = 2 THEN ClockFields(d)[1] * 60 + ClockFields(d)[2]
    ELSE 0

\* the bucket the claim counts a duration in: the last whose lower end is
\* not above its seconds
ClaimedBucket(d) ==
    Cardinality({i \in DOMAIN CLAIMED_DURATION_BOUNDS :
                    CLAIMED_DURATION_BOUNDS[i] <= ClaimedSeconds(d)})

\* C22: durationDistribution counts every record in exactly one of the six
\* buckets [0,60), [60,180), [180,300), [300,600), [600,1800), [1800,inf),
\* the one holding the seconds of its duration (h * 3600 + m * 60 + s for
\* HH:MM:SS, m * 60 + s for MM:SS, 0 for any other string), so the six
\* counts sum to the number of records.
C22_DurationBuckets ==
    Mounted =>
        /\ Len(DurationCounts) = 6
        /\ \A i \in DOMAIN DurationCounts :
               DurationCounts[i] =
                   Cardinality({j \in DOMAIN videos :
                                   ClaimedBucket(Trim(videos[j].duration)) = i})
        /\ SumSeq(DurationCounts) = Len(videos)

----------------------------------------------------------------------------
(* Properties of the segmentation *)

\* the segments a title is cut into: brackets, punctuation, digits and
\* white space separate them
CleanedSegments(text) ==
    SelectSeq(Split(Trim(ReplaceRuns(ReplaceRuns(ReplaceEach(ReplaceEach(text, BRACKETS),
                                                              PUNCTUATION),
                                                  48..57),
                                      WhiteSpace))),
              NonEmpty)

\* the windows the claim emits for a segment: <<len, i>> for the window of
\* len code units at i that holds ideographs only and is no stop word
ClaimedKeys(segment) ==
    {key \in (2..4) \X DOMAIN segment :
        /\ key[2] + key[1] - 1 <= Len(segment)
        /\ \A i \in key[2]..(key[2] + key[1] - 1) : IsCJK(segment[i])
        /\ SubSeq(segment, key[2], key[2] + key[1] - 1) \notin STOP_WORDS}

\* a window is emitted before another: the longer first, and of one length
\* the one that starts first
EmittedBefore(a, b) == a[1] > b[1] \/ (a[1] = b[1] /\ a[2] < b[2])

\* the windows of the keys, each at the place its rank gives it
RankedWindows(segment, keys, rank) ==
    [n \in 1..Cardinality(keys) |->
        CHOOSE word \in {SubSeq(segment, key[2], key[2] + key[1] - 1) :
                            key \in {k \in keys : rank[k] = n - 1}} : TRUE]

\* the windows of the keys in the order they are emitted
OrderedWindows(segment, keys) ==
    CHOOSE words \in
        {RankedWindows(segment, keys, rank) :
            rank \in {[k \in keys |->
                          Cardinality({b \in keys : EmittedBefore(b, k)})]}} : TRUE

\* the tokens the claim emits for a segment that is not purely Latin
ClaimedWindows(segment) ==
    CHOOSE words \in {OrderedWindows(segment, keys) : keys \in {ClaimedKeys(segment)}} :
        TRUE

\* the tokens the claim emits for the segments that are not purely Latin
SegmentTokens(segments) ==
    Flatten([k \in DOMAIN segments |->
                IF IsLatinWord(segments[k]) THEN <<>> ELSE ClaimedWindows(segments[k])])

\* the tokens of the segments of the titles of the records that are not
\* purely Latin, as the claim emits them
ClaimedTokens ==
    Flatten([i \in DOMAIN videos |-> SegmentTokens(CleanedSegments(videos[i].title))])

\* the entry of the frequency table for a word
HasEntry(word, value) ==
    \E i \in DOMAIN dashboard.wordCloudData :
        dashboard.wordCloudData[i] = [name |-> word, value |-> value]

\* "美食"
WORD_FOOD == <<32654, 39135>>

\* C23: a segment of a title that is not purely Latin gives one token for
\* every window of 4, then 3, then 2 code units, at every start position,
\* that holds CJK ideographs only and is no stop word; so the frequency of
\* such a word is the number of its windows in all the titles, and a word
\* with two windows or more (as "美食" in "懒人必看美食教程" and
\* "美食探店vlog") is in the frequency table with that frequency, unless
\* the table is full.
C23_WindowTokens ==
    Mounted =>
        /\ \A i \in DOMAIN videos :
               \A segments \in {CleanedSegments(videos[i].title)} :
                   \A k \in DOMAIN segments :
                       ~IsLatinWord(segments[k]) =>
                           SegmentWords(segments[k]) = ClaimedWindows(segments[k])
        /\ \A tokens \in {ClaimedTokens} :
               \A n \in DOMAIN tokens :
                   (Occurrences(tokens, tokens[n]) >= 2
                        /\ Len(dashboard.wordCloudData) < 100)
                       => HasEntry(tokens[n], Occurrences(tokens, tokens[n]))

\* the two titles of the claim among the records, and "美食" in the table
C23_Witness ==
    /\ Mounted
    /\ \E i, j \in DOMAIN videos :
           videos[i].title = T_TITLE_COOKING /\ videos[j].title = T_TITLE_VLOG
    /\ \E i \in DOMAIN dashboard.wordCloudData :
           /\ dashboard.wordCloudData[i].name = WORD_FOOD
           /\ dashboard.wordCloudData[i].value >= 2

----------------------------------------------------------------------------
(* Properties of the frame of the aggregator *)

\* the keys of the records of a sequence, in its order
KeysOf(vs) == [i \in DOMAIN vs |-> vs[i].key]

----------------------------------------------------------------------------
(* ProjectPage: the chat *)

MaxSends == 2
MaxChunks == 2

\* the variables of the project page's records and of api/chat
projectVars == <<doc, tz, now, pc, videos, prevVideos, callTimes, dashboard, chat>>

\* the page before its document is loaded, api/chat serving no request
ProjectIdle ==
    /\ doc = RawDoc(Undef)
    /\ tz = 0
    /\ now = 0
    /\ pc = "init"
    /\ videos = <<>>
    /\ prevVideos = <<>>
    /\ callTimes = <<>>
    /\ dashboard = Unmounted
    /\ chat = NoRequest

\* "你好，我是智能分析助手，已经加载项目稿件，可以随时分析数据并共创标题。"
GREETING ==
    <<20320, 22909, 65292, 25105, 26159, 26234, 33021, 20998, 26512, 21161, 25163,
      65292, 24050, 32463, 21152, 36733, 39033, 30446, 31295, 20214, 65292, 21487,
      20197, 38543, 26102, 20998, 26512, 25968, 25454, 24182, 20849, 21019, 26631,
      39064, 12290>>
\* "AI 对话服务异常"
SERVICE_ERROR == <<65, 73, 32, 23545, 35805, 26381, 21153, 24322, 24120>>
\* "AI 对话失败"
CHAT_FAILED == <<65, 73, 32, 23545, 35805, 22833, 36133>>
\* "hi"
T_HI == <<104, 105>>
\* " hi "
T_PADDED_HI == <<32, 104, 105, 32>>
\* "p"
T_PROJECT_ID == <<112>>

\* params.id
ProjectIds == {T_EMPTY, T_PROJECT_ID}

\* what the user may type
ChatInputs == {T_EMPTY, T_BLANK, T_HI, T_PADDED_HI}

\* what decoder.decode returns for a chunk: "" for bytes that complete no
\* character
ChunkTexts == {T_EMPTY, T_ABC}

\* the values a rejected fetch or read may carry
Rejections == {ThrownError(T_ABC), ThrownValue}

\* the responses fetch may resolve with; error is the member of that name of
\* the JSON body, undefined where the body is no JSON object or has none
Responses ==
    {[ok |-> TRUE, body |-> TRUE, error |-> Undef],
     [ok |-> TRUE, body |-> FALSE, error |-> Undef],
     [ok |-> FALSE, body |-> FALSE, error |-> Undef],
     [ok |-> FALSE, body |-> TRUE, error |-> Undef],
     [ok |-> FALSE, body |-> TRUE, error |-> Str(T_ABC)]}

ChatMessage(id, role, content, at) ==
    [id |-> id, role |-> role, content |-> content, timestamp |-> at]

\* chatMessages.map(({ role, content }) => ({ role, content }))
History(messages) ==
    [i \in DOMAIN messages |->
        [role |-> messages[i].role, content |-> messages[i].content]]

\* the messages with none removed
WithoutMessage_kept(messages, id) == messages

\* prev.filter((message) => message.id !== id)
WithoutMessage(messages, id) == SelectSeq(messages, LAMBDA message : message.id # id)

\* prev.map((message) => message.id === id
\*     ? { ...message, content: `${message.content}${text}` } : message)
WithText(messages, id, text) ==
    [i \in DOMAIN messages |->
        IF messages[i].id = id THEN [messages[i] EXCEPT !.content = @ \o text]
        ELSE messages[i]]

\* the chat of a page just rendered.  ids counts the ids generateMessageId
\* has returned, each one new; chatRequestControllerRef is 0 for null, else
\* the index in controllers of the AbortController it refers to; sends holds
\* the position of each handleSendMessage call, the number of reads that
\* resolved with a chunk and the text decoded from them.
ChatMounted(projectId) ==
    [mounted |-> TRUE,
     projectId |-> projectId,
     ids |-> 1,
     chatMessages |-> <<ChatMessage(1, "assistant", GREETING, now)>>,
     chatInput |-> T_EMPTY,
     isResponding |-> FALSE,
     chatError |-> Null,
     chatRequestControllerRef |-> 0,
     controllers |-> <<>>,
     sends |-> <<>>]

\* handleSendMessage up to its first await
Sent(c) ==
    LET trimmed == Trim(c.chatInput)
        userMessage == ChatMessage(c.ids + 1, "user", trimmed, now)
        assistantMessage == ChatMessage(c.ids + 2, "assistant", <<>>, now)
        history == History(c.chatMessages)
        payload == [projectId |-> c.projectId,
                    messages |-> Append(history, [role |-> "user", content |-> trimmed])]
        controller == Len(c.controllers) + 1
    IN [c EXCEPT !.ids = @ + 2,
                 !.chatMessages = @ \o <<userMessage, assistantMessage>>,
                 !.chatInput = T_EMPTY,
                 !.isResponding = TRUE,
                 !.chatError = Null,
                 !.controllers = Append(@, [aborted |-> FALSE]),
                 !.chatRequestControllerRef = controller,
                 !.sends = Append(@, [pc |-> "fetch",
                                      assistantId |-> assistantMessage.id,
                                      controller |-> controller,
                                      payload |-> payload,
                                      reads |-> 0,
                                      text |-> <<>>])]

\* err instanceof Error ? err.message : "AI 对话失败"
ErrorMessageOf(thrown) == IF thrown.error THEN thrown.message ELSE CHAT_FAILED

\* catch (err)
Catch(c, id, thrown) ==
    [c EXCEPT !.chatError = Str(ErrorMessageOf(thrown)),
              !.chatMessages = WithoutMessage(@, id)]

\* the finally block without its last statement
Finally_refKept(c) == [c EXCEPT !.isResponding = FALSE]

\* finally
Finally(c) == [c EXCEPT !.isResponding = FALSE, !.chatRequestControllerRef = 0]

\* send i leaves its try block by a throw
Failed(c, i, thrown) ==
    Finally(Catch([c EXCEPT !.sends[i].pc = "failed"], c.sends[i].assistantId, thrown))

\* send i leaves its try block by the break of the read loop
Completed(c, i) == Finally([c EXCEPT !.sends[i].pc = "completed"])

\* the AbortSignal of send i of c is aborted
Aborted(c, i) == c.controllers[c.sends[i].controller].aborted

\* the cleanup of the effect: chatRequestControllerRef.current.abort()
AfterCleanup(c) ==
    [c EXCEPT !.mounted = FALSE,
              !.controllers = IF c.chatRequestControllerRef # 0
                              THEN [@ EXCEPT ![c.chatRequestControllerRef].aborted = TRUE]
                              ELSE @]

ChatClientInit ==
    /\ ProjectIdle
    /\ \E projectId \in ProjectIds : chatClient = ChatMounted(projectId)
    /\ auth = NoAuth
    /\ home = NoHome

\* onChange={(event) => setChatInput(event.target.value)}
SetChatInput ==
    /\ chatClient.mounted
    /\ \E text \in ChatInputs \ {chatClient.chatInput} :
           chatClient' = [chatClient EXCEPT !.chatInput = text]
    /\ UNCHANGED <<projectVars, auth, home>>

\* handleSendMessage is called, by the Enter key or the button: it returns at
\* once, or runs up to the fetch
HandleSendMessage ==
    /\ chatClient.mounted
    /\ Len(chatClient.sends) < MaxSends
    /\ chatClient' = IF \/ Trim(chatClient.chatInput) = <<>>
                        \/ chatClient.isResponding
                        \/ chatClient.projectId = <<>>
                     THEN chatClient
                     ELSE Sent(chatClient)
    /\ UNCHANGED <<projectVars, auth, home>>

\* the fetch of a send resolves with a response, its signal not aborted:
\* the handler throws on a response that is not ok or has no body, else
\* it goes on to read the body
FetchResolves ==
    /\ \E i \in DOMAIN chatClient.sends, response \in Responses :
           /\ chatClient.sends[i].pc = "fetch"
           /\ ~Aborted(chatClient, i)
           /\ chatClient' =
                  IF ~response.ok \/ ~response.body
                  THEN Failed(chatClient, i,
                              ThrownError(Coalesce(response.error, Str(SERVICE_ERROR)).s))
                  ELSE [chatClient EXCEPT !.sends[i].pc = "read"]
    /\ UNCHANGED <<projectVars, auth, home>>

\* the fetch of a send rejects: the network failed, or its signal is aborted
FetchRejects ==
    /\ \E i \in DOMAIN chatClient.sends, thrown \in Rejections :
           /\ chatClient.sends[i].pc = "fetch"
           /\ chatClient' = Failed(chatClient, i, thrown)
    /\ UNCHANGED <<projectVars, auth, home>>

\* reader.read() of a send resolves, its signal not aborted: with done, or
\* with a chunk whose text is appended to the assistant's message
ReadResolves ==
    /\ \E i \in DOMAIN chatClient.sends, done \in BOOLEAN, text \in ChunkTexts :
           /\ chatClient.sends[i].pc = "read"
           /\ ~Aborted(chatClient, i)
           /\ done \/ chatClient.sends[i].reads < MaxChunks
           /\ chatClient' =
                  IF done THEN Completed(chatClient, i)
                  ELSE [chatClient EXCEPT
                           !.sends[i].reads = @ + 1,
                           !.sends[i].text = @ \o text,
                           !.chatMessages =
                               IF text # <<>>
                               THEN WithText(@, chatClient.sends[i].assistantId, text)
                               ELSE @]
    /\ UNCHANGED <<projectVars, auth, home>>

\* reader.read() of a send rejects: the stream failed, or its signal is
\* aborted
ReadRejects ==
    /\ \E i \in DOMAIN chatClient.sends, thrown \in Rejections :
           /\ chatClient.sends[i].pc = "read"
           /\ chatClient' = Failed(chatClient, i, thrown)
    /\ UNCHANGED <<projectVars, auth, home>>

\* ProjectPage unmounts: the cleanup of its effect runs.  The sends in
\* flight go on, and the values they give the setters are kept in chatClient.
Unmount ==
    /\ chatClient.mounted
    /\ chatClient' = AfterCleanup(chatClient)
    /\ UNCHANGED <<projectVars, auth, home>>

ChatClientNext ==
    \/ SetChatInput
    \/ HandleSendMessage
    \/ FetchResolves
    \/ FetchRejects
    \/ ReadResolves
    \/ ReadRejects
    \/ Unmount

ChatClientSpec == ChatClientInit /\ [][ChatClientNext]_vars

----------------------------------------------------------------------------
(* Properties of the chat of the page *)

InFlight(send) == send.pc \in {"fetch", "read"}

NoneInFlight(c) == \A i \in DOMAIN c.sends : ~InFlight(c.sends[i])

\* C25: when the page unmounts, the AbortController of every send in flight,
\* and of no other send, is aborted; a send whose controller is aborted
\* reads no further chunk and can only fail; and whenever no send is in
\* flight the controller reference is null.
C25_UnmountAbortsInFlight ==
    [][/\ (chatClient.mounted /\ ~chatClient'.mounted) =>
              \A k \in DOMAIN chatClient.controllers :
                  chatClient'.controllers[k].aborted =
                      \E i \in DOMAIN chatClient.sends :
                          /\ InFlight(chatClient.sends[i])
                          /\ chatClient.sends[i].controller = k
       /\ \A i \in DOMAIN chatClient.sends :
              Aborted(chatClient, i) =>
                  /\ chatClient'.sends[i].reads = chatClient.sends[i].reads
                  /\ chatClient'.sends[i].pc \in {chatClient.sends[i].pc, "failed"}
       /\ NoneInFlight(chatClient') => chatClient'.chatRequestControllerRef = 0]_vars

\* a send completed, the next one was reading when the page unmounted: only
\* the controller of the second is aborted, and its send failed
C25_Witness ==
    /\ ~chatClient.mounted
    /\ Len(chatClient.sends) = 2
    /\ chatClient.sends[1].pc = "completed"
    /\ ~Aborted(chatClient, 1)
    /\ chatClient.sends[2].pc = "failed"
    /\ chatClient.sends[2].reads >= 1
    /\ Aborted(chatClient, 2)

\* C26: when a send fails, its placeholder is removed from chatMessages with
\* the text streamed into it, every other message is as it was, which are
\* the messages before the send and the user's message, chatError is set
\* and isResponding is false.
C26_FailedSendRemovesPlaceholder ==
    [][\A i \in DOMAIN chatClient.sends :
           (InFlight(chatClient.sends[i]) /\ chatClient'.sends[i].pc = "failed") =>
               /\ \E k \in DOMAIN chatClient.chatMessages :
                      /\ chatClient.chatMessages[k].id = chatClient.sends[i].assistantId
                      /\ chatClient'.chatMessages =
                             SubSeq(chatClient.chatMessages, 1, k - 1)
                                 \o SubSeq(chatClient.chatMessages, k + 1,
                                           Len(chatClient.chatMessages))
               /\ History(chatClient'.chatMessages) = chatClient.sends[i].payload.messages
               /\ chatClient'.chatError # Null
               /\ ~chatClient'.isResponding]_vars

\* a send failed after text was streamed into its placeholder, on a mounted
\* page
C26_Witness ==
    /\ chatClient.mounted
    /\ \E i \in DOMAIN chatClient.sends :
           /\ chatClient.sends[i].pc = "failed"
           /\ chatClient.sends[i].text # <<>>
           /\ i = 2
    /\ chatClient.chatError = Str(CHAT_FAILED)
    /\ ~chatClient.isResponding

----------------------------------------------------------------------------
(* hooks/useCloudBaseAuth *)

MaxAuthCalls == 3

\* "登录失败，请稍后再试"
UNKNOWN_ERROR_MESSAGE ==
    <<30331, 24405, 22833, 36133, 65292, 35831, 31245, 21518, 20877, 35797>>
\* "认证服务未初始化"
AUTH_NOT_INITIALIZED ==
    <<35748, 35777, 26381, 21153, 26410, 21021, 22987, 21270>>
\* "登录成功但获取用户信息失败"
NO_USER_INFO ==
    <<30331, 24405, 25104, 21151, 20294, 33719, 21462, 29992, 25143, 20449,
    24687, 22833, 36133>>
\* "CloudBase 配置错误，请检查环境变量"
CONFIG_ERROR_MESSAGE ==
    <<67, 108, 111, 117, 100, 66, 97, 115, 101, 32, 37197, 32622, 38169,
    35823, 65292, 35831, 26816, 26597, 29615, 22659, 21464, 37327>>
\* "secret id error"
SECRET_ID_ERROR ==
    <<115, 101, 99, 114, 101, 116, 32, 105, 100, 32, 101, 114, 114, 111, 114>>
\* "SIGN_PARAM_INVALID"
SIGN_PARAM_INVALID ==
    <<83, 73, 71, 78, 95, 80, 65, 82, 65, 77, 95, 73, 78, 86, 65, 76, 73, 68>>
\* "dev-user-123"
DEV_USER_ID ==
    <<100, 101, 118, 45, 117, 115, 101, 114, 45, 49, 50, 51>>
\* "user"
DEFAULT_USERNAME ==
    <<117, 115, 101, 114>>
\* "u1"
T_UID ==
    <<117, 49>>
\* "INVALID_CREDENTIALS"
INVALID_CREDENTIALS ==
    <<73, 78, 86, 65, 76, 73, 68, 95, 67, 82, 69, 68, 69, 78, 84, 73, 65, 76,
    83>>

\* the cases of the switch: the codes of each, and the message returned
ERROR_CASES ==
    <<
     \* "INVALID_CREDENTIALS", "invalid_username_or_password", "AUTH_FAILED": "用户名或密码错误"
     [codes |->
          {<<73, 78, 86, 65, 76, 73, 68, 95, 67, 82, 69, 68, 69, 78, 84, 73,
           65, 76, 83>>,
           <<105, 110, 118, 97, 108, 105, 100, 95, 117, 115, 101, 114, 110,
           97, 109, 101, 95, 111, 114, 95, 112, 97, 115, 115, 119, 111, 114,
           100>>,
           <<65, 85, 84, 72, 95, 70, 65, 73, 76, 69, 68>>},
      message |->
          <<29992, 25143, 21517, 25110, 23494, 30721, 38169, 35823>>],
     \* "USER_NOT_FOUND", "USER_DOES_NOT_EXIST": "账户不存在，请联系管理员"
     [codes |->
          {<<85, 83, 69, 82, 95, 78, 79, 84, 95, 70, 79, 85, 78, 68>>,
           <<85, 83, 69, 82, 95, 68, 79, 69, 83, 95, 78, 79, 84, 95, 69, 88,
           73, 83, 84>>},
      message |->
          <<36134, 25143, 19981, 23384, 22312, 65292, 35831, 32852, 31995,
          31649, 29702, 21592>>],
     \* "RATE_LIMIT_EXCEEDED", "REQUEST_LIMITED": "操作过于频繁，请稍后再试"
     [codes |->
          {<<82, 65, 84, 69, 95, 76, 73, 77, 73, 84, 95, 69, 88, 67, 69, 69,
           68, 69, 68>>,
           <<82, 69, 81, 85, 69, 83, 84, 95, 76, 73, 77, 73, 84, 69, 68>>},
      message |->
          <<25805, 20316, 36807, 20110, 39057, 32321, 65292, 35831, 31245,
          21518, 20877, 35797>>],
     \* "CAPTCHA_REQUIRED": "已触发风控，请在控制台完成图形验证码验证"
     [codes |->
          {<<67, 65, 80, 84, 67, 72, 65, 95, 82, 69, 81, 85, 73, 82, 69, 68>>},
      message |->
          <<24050, 35302, 21457, 39118, 25511, 65292, 35831, 22312, 25511,
          21046, 21488, 23436, 25104, 22270, 24418, 39564, 35777, 30721,
          39564, 35777>>],
     \* "NETWORK_ERROR": "网络错误，请检查网络连接"
     [codes |->
          {<<78, 69, 84, 87, 79, 82, 75, 95, 69, 82, 82, 79, 82>>},
      message |->
          <<32593, 32476, 38169, 35823, 65292, 35831, 26816, 26597, 32593,
          32476, 36830, 25509>>],
     \* "AUTH_EXPIRED": "登录已过期，请重新登录"
     [codes |->
          {<<65, 85, 84, 72, 95, 69, 88, 80, 73, 82, 69, 68>>},
      message |->
          <<30331, 24405, 24050, 36807, 26399, 65292, 35831, 37325, 26032,
          30331, 24405>>],
     \* "UNAUTHORIZED": "未授权访问，请重新登录"
     [codes |->
          {<<85, 78, 65, 85, 84, 72, 79, 82, 73, 90, 69, 68>>},
      message |->
          <<26410, 25480, 26435, 35775, 38382, 65292, 35831, 37325, 26032,
          30331, 24405>>]>>

\* the message of the switch case that lists the code, or the default: the
\* configuration message when message holds one of the two texts, else
\* message ?? UNKNOWN_ERROR_MESSAGE
SwitchMessage(code, message) ==
    IF IsString(code) /\ \E i \in DOMAIN ERROR_CASES : code.s \in ERROR_CASES[i].codes
    THEN LET i == CHOOSE j \in DOMAIN ERROR_CASES : code.s \in ERROR_CASES[j].codes
         IN Str(ERROR_CASES[i].message)
    ELSE IF /\ IsString(message)
            /\ \/ Includes(message.s, SECRET_ID_ERROR)
               \/ Includes(message.s, SIGN_PARAM_INVALID)
         THEN Str(CONFIG_ERROR_MESSAGE)
         ELSE Coalesce(message, Str(UNKNOWN_ERROR_MESSAGE))

mapErrorToMessage(err) ==
    IF IsString(err) THEN err
    ELSE IF err.t = "object"
    THEN IF Truthy(Get(err, "error_description")) THEN Get(err, "error_description")
         ELSE IF Truthy(Get(err, "msg")) THEN Get(err, "msg")
         ELSE SwitchMessage(LogicalOr(Get(err, "code"), Get(err, "error")),
                            Get(err, "message"))
    ELSE Str(UNKNOWN_ERROR_MESSAGE)

\* new Error(message)
Error(message) == Obj(<<Prop("message", message)>>)

\* the users the SDK may return: with uid and username, with uid only, with
\* neither
SdkUsers ==
    {Obj(<<Prop("uid", Str(T_UID)), Prop("username", Str(T_UP))>>),
     Obj(<<Prop("uid", Str(T_UID))>>),
     Obj(<<>>)}

\* the values an SDK call may reject with
SdkErrors ==
    {Undef,
     Str(T_ABC),
     Obj(<<Prop("error_description", Str(T_ABC)), Prop("code", Str(INVALID_CREDENTIALS))>>),
     Obj(<<Prop("code", Str(INVALID_CREDENTIALS))>>),
     Error(Str(SECRET_ID_ERROR \o T_ABC)),
     Error(Str(T_ABC))}

\* the user names typed into the login form
Usernames == {T_ABC}

\* the builds: hasEnvId is whether NEXT_PUBLIC_CLOUDBASE_ENV_ID is set, ready
\* whether lib/cloudbase exports an auth object
AuthBuilds ==
    {[hasEnvId |-> FALSE, ready |-> FALSE],
     [hasEnvId |-> TRUE, ready |-> FALSE],
     [hasEnvId |-> TRUE, ready |-> TRUE]}

\* the hook of a component just rendered, its effect not yet run.  calls
\* holds, for each call of refresh, signInWithCredentials and signOut, the
\* SDK call it awaits, or how it ended.
AuthMounted(build) ==
    [mounted |-> TRUE,
     hasEnvId |-> build.hasEnvId,
     ready |-> build.ready,
     status |-> "checking",
     user |-> Null,
     error |-> Null,
     effectRan |-> FALSE,
     calls |-> <<>>]

\* setUser(null); setStatus("unauthenticated"); setError(null)
Unauthenticated(a) ==
    [a EXCEPT !.user = Null, !.status = "unauthenticated", !.error = Null]

\* setUser({ uid, username }); setStatus("authenticated"); setError(null)
Authenticated(a, uid, username) ==
    [a EXCEPT !.user = Obj(<<Prop("uid", uid), Prop("username", username)>>),
              !.status = "authenticated",
              !.error = Null]

\* setStatus("checking"); setError(friendly)
SignInFailed_checking(a, friendly) ==
    [a EXCEPT !.status = "checking", !.error = friendly]

\* setStatus("unauthenticated"); setError(friendly)
SignInFailed(a, friendly) ==
    [a EXCEPT !.status = "unauthenticated", !.error = friendly]

\* setStatus("checking"); setError(null)
Checking(a) == [a EXCEPT !.status = "checking", !.error = Null]

Call(op, at, username) == [op |-> op, pc |-> at, username |-> username]

WithCall(a, call) == [a EXCEPT !.calls = Append(@, call)]

\* call i of a is at the position
At(a, i, at) == [a EXCEPT !.calls[i].pc = at]

\* refresh up to its await, or to its return
Refreshed(a) ==
    IF ~a.hasEnvId \/ ~a.ready
    THEN WithCall(Unauthenticated(a), Call("refresh", "returned", <<>>))
    ELSE WithCall(a, Call("refresh", "getCurrentUser", <<>>))

\* what refresh does when auth.getCurrentUser() resolves with currentUser
RefreshResolved(a, currentUser) ==
    IF Truthy(currentUser)
    THEN Authenticated(a, Get(currentUser, "uid"),
                       LogicalOr(LogicalOr(Get(currentUser, "username"),
                                           Get(currentUser, "uid")),
                                 Str(DEFAULT_USERNAME)))
    ELSE Unauthenticated(a)

\* signInWithCredentials up to its await, its return or its throw
SignedIn(a, username) ==
    IF ~a.hasEnvId
    THEN WithCall(Authenticated(a, Str(DEV_USER_ID), Str(username)),
                  Call("signInWithCredentials", "returned", username))
    ELSE IF ~a.ready
    THEN WithCall(SignInFailed(a, Str(AUTH_NOT_INITIALIZED)),
                  Call("signInWithCredentials", "threw", username))
    ELSE WithCall(Checking(a), Call("signInWithCredentials", "signIn", username))

\* the catch block of signInWithCredentials, for call i
SignInCaught(a, i, err) == At(SignInFailed(a, mapErrorToMessage(err)), i, "threw")

\* what signInWithCredentials does with userInfo, for call i
SignInResolved(a, i, userInfo) ==
    IF Truthy(userInfo)
    THEN At(Authenticated(a, Get(userInfo, "uid"),
                          LogicalOr(LogicalOr(Get(userInfo, "username"),
                                              Get(userInfo, "uid")),
                                    Str(a.calls[i].username))),
            i, "returned")
    ELSE SignInCaught(a, i, Error(Str(NO_USER_INFO)))

\* signOut up to its await, or to its return
SignedOut(a) ==
    IF ~a.hasEnvId \/ ~a.ready
    THEN WithCall(Unauthenticated(a), Call("signOut", "returned", <<>>))
    ELSE WithCall(a, Call("signOut", "signOut", <<>>))

AuthInit ==
    /\ ProjectIdle
    /\ chatClient = NoChat
    /\ \E build \in AuthBuilds : auth = AuthMounted(build)
    /\ home = NoHome

\* the effect of the hook runs, once: void refresh()
AuthEffect ==
    /\ auth.mounted
    /\ ~auth.effectRan
    /\ auth' = Refreshed([auth EXCEPT !.effectRan = TRUE])
    /\ UNCHANGED <<projectVars, chatClient, home>>

\* the component calls refresh
Refresh ==
    /\ auth.mounted
    /\ auth.effectRan
    /\ Len(auth.calls) < MaxAuthCalls
    /\ auth' = Refreshed(auth)
    /\ UNCHANGED <<projectVars, chatClient, home>>

\* the component calls signInWithCredentials
SignInWithCredentials ==
    /\ auth.mounted
    /\ auth.effectRan
    /\ Len(auth.calls) < MaxAuthCalls
    /\ \E username \in Usernames : auth' = SignedIn(auth, username)
    /\ UNCHANGED <<projectVars, chatClient, home>>

\* the component calls signOut
SignOut ==
    /\ auth.mounted
    /\ auth.effectRan
    /\ Len(auth.calls) < MaxAuthCalls
    /\ auth' = SignedOut(auth)
    /\ UNCHANGED <<projectVars, chatClient, home>>

\* auth.getCurrentUser() settles, for refresh or for signInWithCredentials:
\* it resolves with a user or with null, or it rejects
GetCurrentUserSettles ==
    /\ \E i \in DOMAIN auth.calls :
           /\ auth.calls[i].pc = "getCurrentUser"
           /\ \/ \E currentUser \in SdkUsers \cup {Null} :
                     auth' = IF auth.calls[i].op = "refresh"
                             THEN At(RefreshResolved(auth, currentUser), i, "returned")
                             ELSE SignInResolved(auth, i, currentUser)
              \/ \E err \in SdkErrors :
                     auth' = IF auth.calls[i].op = "refresh"
                             THEN At(Unauthenticated(auth), i, "returned")
                             ELSE SignInCaught(auth, i, err)
    /\ UNCHANGED <<projectVars, chatClient, home>>

\* auth.signIn() settles: it resolves with a login state that has a user,
\* or with one that has none and getCurrentUser is called, or it rejects
SignInSettles ==
    /\ \E i \in DOMAIN auth.calls :
           /\ auth.calls[i].pc = "signIn"
           /\ \/ \E user \in SdkUsers : auth' = SignInResolved(auth, i, user)
              \/ auth' = At(auth, i, "getCurrentUser")
              \/ \E err \in SdkErrors : auth' = SignInCaught(auth, i, err)
    /\ UNCHANGED <<projectVars, chatClient, home>>

\* auth.signOut() settles: it resolves, or it rejects
SignOutSettles ==
    /\ \E i \in DOMAIN auth.calls :
           /\ auth.calls[i].pc = "signOut"
           /\ auth' = At(Unauthenticated(auth), i, "returned")
    /\ UNCHANGED <<projectVars, chatClient, home>>

AuthNext ==
    \/ AuthEffect
    \/ Refresh
    \/ SignInWithCredentials
    \/ SignOut
    \/ GetCurrentUserSettles
    \/ SignInSettles
    \/ SignOutSettles

AuthSpec == AuthInit /\ [][AuthNext]_vars

\* React runs the effect of a mounted component, and every pending SDK call
\* settles
AuthFairness ==
    /\ WF_vars(AuthEffect)
    /\ WF_vars(GetCurrentUserSettles)
    /\ WF_vars(SignInSettles)
    /\ WF_vars(SignOutSettles)

AuthLiveSpec == AuthInit /\ [][AuthNext]_vars /\ AuthFairness

----------------------------------------------------------------------------
(* Properties of the auth hook *)

\* C27: in every reachable state, status "unauthenticated" implies user null.
C27_UnauthenticatedHasNoUser ==
    auth.status = "unauthenticated" => auth.user = Null

\* C28: the status is never "error", and whenever it is "checking" it is
\* later "authenticated" or "unauthenticated".
C28_CheckingEnds ==
    /\ [](auth.status \in {"checking", "authenticated", "unauthenticated"})
    /\ (auth.status = "checking") ~> (auth.status \in {"authenticated", "unauthenticated"})

\* a sign-in that set the status to "checking" while a user was signed in
\* has thrown, and a refresh issued after it has returned
C28_Witness ==
    /\ Len(auth.calls) = 3
    /\ auth.calls[2].op = "signInWithCredentials"
    /\ auth.calls[2].pc = "threw"
    /\ auth.calls[3].op = "refresh"
    /\ auth.calls[3].pc = "returned"
    /\ auth.hasEnvId /\ auth.ready
    /\ auth.status = "authenticated"

----------------------------------------------------------------------------
(* Properties of the chat route *)

\* the positions of the messages that survive: objects of role "user" or
\* "assistant" whose content is a string with a character that is no white
\* space
Surviving(items) ==
    {i \in DOMAIN items :
        /\ items[i].t = "object"
        /\ Get(items[i], "role") \in {Str(ROLE_USER), Str(ROLE_ASSISTANT)}
        /\ IsString(Get(items[i], "content"))
        /\ \E k \in DOMAIN Get(items[i], "content").s :
               Get(items[i], "content").s[k] \notin WhiteSpace}

\* the surviving messages in their order, their contents trimmed
ClaimedMessages(items) ==
    [k \in 1..Cardinality(Surviving(items)) |->
        LET i == CHOOSE j \in Surviving(items) :
                     Cardinality({h \in Surviving(items) : h < j}) = k - 1
        IN [role |-> Get(items[i], "role").s,
            content |-> Trim(Get(items[i], "content").s)]]

\* the body has no projectId or an empty one, no messages array, an empty
\* one, or one whose messages do not survive
Unacceptable(body) ==
    \/ ReadMember(body, "projectId") \in {Undef, Str(<<>>)}
    \/ ~IsArray(ReadMember(body, "messages"))
    \/ Surviving(ReadMember(body, "messages").items) = {}

\* the messages passed to the completion API are the system message with
\* the prompt, then the surviving messages of the request
PassesClaimedMessages ==
    chat.pc = "completing" =>
        /\ chat.messages[1] = [role |-> ROLE_SYSTEM, content |-> chat.systemPrompt]
        /\ Tail(chat.messages) = ClaimedMessages(ReadMember(chat.request.body, "messages").items)
        /\ \A i \in 2..Len(chat.messages) : chat.messages[i].role # ROLE_SYSTEM

\* C29 (as stated): the messages passed are the claimed ones, and every
\* request with an unacceptable body is answered with status 400.
C29_BadRequestAnswered400 ==
    /\ PassesClaimedMessages
    /\ (chat.pc # "idle" /\ (~chat.request.parses \/ Unacceptable(chat.request.body))) =>
           chat.pc = "responded" /\ chat.status = 400

\* C29 (amended): the messages passed are the claimed ones; with the API
\* key configured, every request whose body is a JSON value other than null
\* and is unacceptable is answered with status 400; and no request with an
\* unacceptable body reaches the completion API.
C29_BadRequestAnswered400WithKey ==
    /\ PassesClaimedMessages
    /\ chat.pc # "idle" =>
           /\ (/\ chat.request.hasKey
               /\ chat.request.parses
               /\ chat.request.body # Null
               /\ Unacceptable(chat.request.body)) =>
                  chat.pc = "responded" /\ chat.status = 400
           /\ (~chat.request.parses \/ Unacceptable(chat.request.body)) =>
                  chat.pc # "completing"

\* a request of seven messages, four of them dropped and one trimmed, is at
\* the completion API
C29_Witness ==
    /\ chat.pc = "completing"
    /\ Len(ReadMember(chat.request.body, "messages").items) = 7
    /\ Len(chat.messages) = 4
    /\ chat.messages[2].content # Get(ReadMember(chat.request.body, "messages").items[2], "content").s
    /\ chat.videos # <<>>

----------------------------------------------------------------------------
(* app/page: Home *)

MaxRefreshes == 2
MaxAdds == 1

\* "数据库未初始化，请检查 CloudBase 配置"
DB_NOT_INITIALIZED ==
    <<25968, 25454, 24211, 26410, 21021, 22987, 21270, 65292, 35831, 26816, 26597,
      32, 67, 108, 111, 117, 100, 66, 97, 115, 101, 32, 37197, 32622>>
\* "数据加载失败"
LOAD_FAILED == <<25968, 25454, 21152, 36733, 22833, 36133>>
\* "CloudBase 未初始化"
APP_NOT_INITIALIZED ==
    <<67, 108, 111, 117, 100, 66, 97, 115, 101, 32, 26410, 21021, 22987, 21270>>
\* "添加项目失败"
ADD_FAILED == <<28155, 21152, 39033, 30446, 22833, 36133>>
\* "mock-1"
MOCK_ID_1 == <<109, 111, 99, 107, 45, 49>>
\* "mock-2"
MOCK_ID_2 == <<109, 111, 99, 107, 45, 50>>
\* "示例项目 1"
MOCK_NAME_1 == <<31034, 20363, 39033, 30446, 32, 49>>
\* "示例项目 2"
MOCK_NAME_2 == <<31034, 20363, 39033, 30446, 32, 50>>

\* document k of the collection: "p1" with a name and a video, "p2" with
\* neither, and so on
StoredDoc(k) ==
    IF k % 2 = 1
    THEN [_id |-> T_PROJECT_ID \o IntToString(k), name |-> T_ABC, data |-> Arr(<<VideoA>>)]
    ELSE [_id |-> T_PROJECT_ID \o IntToString(k), data |-> Undef]

\* snapshot.data of a collection of size documents
Snapshot(size) == [k \in 1..size |-> StoredDoc(k)]

\* new Date().toISOString() at the wall clock: the string is not spelled out
IsoString(at) == [t |-> "string", isoOf |-> at]

Project(id, name, createTime, vs) ==
    [_id |-> id, name |-> name, createTime |-> createTime, videos |-> vs]

mockProjects(at) ==
    <<Project(MOCK_ID_1, MOCK_NAME_1, IsoString(at), <<>>),
      Project(MOCK_ID_2, MOCK_NAME_2, IsoString(at), <<>>)>>

\* (snapshot.data ?? []).map((doc) => ({ _id, name: doc.name || "未命名项目",
\*                                       createTime, videos: normalizeRecords(doc) }))
projectList(data) ==
    [i \in DOMAIN data |->
        Project(data[i]._id,
                IF "name" \in DOMAIN data[i] /\ data[i].name # <<>> THEN data[i].name
                ELSE UNNAMED_PROJECT,
                IF "createTime" \in DOMAIN data[i] THEN data[i].createTime ELSE Undef,
                normalizeRecords(data[i]))]

\* the builds: development is whether NODE_ENV is "development", hasEnvId
\* whether NEXT_PUBLIC_CLOUDBASE_ENV_ID is set, ready whether lib/cloudbase
\* exports app and db objects
HomeBuilds ==
    {[development |-> development, hasEnvId |-> b.hasEnvId, ready |-> b.ready] :
        development \in BOOLEAN, b \in AuthBuilds}

\* the page just rendered, its effect not yet run.  size is the number of
\* documents in the collection; calls holds the position of each refreshData
\* call that reached db.get() and the size of the collection when the
\* database served it; adds holds the position of each
\* handleConfirmAddProject call that reached its first await.
HomeMounted(build) ==
    [mounted |-> TRUE,
     development |-> build.development,
     hasEnvId |-> build.hasEnvId,
     ready |-> build.ready,
     status |-> "checking",
     effectPending |-> TRUE,
     projects |-> <<>>,
     loading |-> TRUE,
     error |-> Null,
     lastUpdated |-> Null,
     showAddProject |-> FALSE,
     newProjectKeyword |-> T_EMPTY,
     addingProject |-> FALSE,
     size |-> 1,
     calls |-> <<>>,
     adds |-> <<>>]

\* refreshData of a render with the status, up to its await or to its return
Refreshing(h, status) ==
    IF h.hasEnvId /\ status # "authenticated" THEN h
    ELSE IF ~h.hasEnvId
    THEN [h EXCEPT !.loading = FALSE, !.error = Null,
                   !.projects = mockProjects(now), !.lastUpdated = now]
    ELSE IF ~h.ready
    THEN [h EXCEPT !.loading = FALSE, !.error = Str(DB_NOT_INITIALIZED)]
    ELSE [h EXCEPT !.loading = TRUE, !.error = Null,
                   !.calls = Append(@, [pc |-> "get", served |-> 0])]

\* refreshData of the render with the status awaits db.get()
Awaits(h, status) == h.hasEnvId /\ status = "authenticated" /\ h.ready

\* refreshData from the resolution of db.get() of call i to its return
Fetched(h, i) ==
    [h EXCEPT !.projects = projectList(Snapshot(h.calls[i].served)),
              !.lastUpdated = now,
              !.loading = FALSE,
              !.calls[i].pc = "resolved"]

\* refreshData from the rejection of db.get() of call i to its return
FetchFailed(h, i, thrown) ==
    [h EXCEPT !.error = Str(IF thrown.error THEN thrown.message ELSE LOAD_FAILED),
              !.loading = FALSE,
              !.calls[i].pc = "rejected"]

\* handleConfirmAddProject after await refreshData(), for the add that
\* awaits call i, if any
AfterRefresh(h, i) ==
    IF \E j \in DOMAIN h.adds : h.adds[j].pc = "refreshData" /\ h.adds[j].call = i
    THEN LET j == CHOOSE k \in DOMAIN h.adds :
                      h.adds[k].pc = "refreshData" /\ h.adds[k].call = i
         IN [h EXCEPT !.showAddProject = FALSE,
                      !.newProjectKeyword = T_EMPTY,
                      !.addingProject = FALSE,
                      !.adds[j].pc = "returned"]
    ELSE h

\* handleConfirmAddProject of add j from the end of its first await to its
\* next await or to its return: refreshData of the render of the click
AfterCrawl(h, j) ==
    IF Awaits(h, h.adds[j].status)
    THEN [Refreshing(h, h.adds[j].status)
              EXCEPT !.adds[j].pc = "refreshData", !.adds[j].call = Len(h.calls) + 1]
    ELSE [Refreshing(h, h.adds[j].status)
              EXCEPT !.showAddProject = FALSE,
                     !.newProjectKeyword = T_EMPTY,
                     !.addingProject = FALSE,
                     !.adds[j].pc = "returned"]

HomeInit ==
    /\ ProjectIdle
    /\ chatClient = NoChat
    /\ auth = NoAuth
    /\ \E build \in HomeBuilds : home = HomeMounted(build)

\* useCloudBaseAuth returns another status: the effect is due again
StatusChanges ==
    /\ home.mounted
    /\ \E status \in {"checking", "authenticated", "unauthenticated"} \ {home.status} :
           home' = [home EXCEPT !.status = status, !.effectPending = TRUE]
    /\ UNCHANGED <<projectVars, chatClient, auth>>

\* the effect on [status, refreshData] runs
HomeEffect ==
    /\ home.mounted
    /\ home.effectPending
    /\ Awaits(home, home.status) => Len(home.calls) < MaxRefreshes
    /\ home' = IF home.development \/ home.status = "authenticated"
               THEN Refreshing([home EXCEPT !.effectPending = FALSE], home.status)
               ELSE [home EXCEPT !.effectPending = FALSE]
    /\ UNCHANGED <<projectVars, chatClient, auth>>

\* the refresh button, enabled when authenticated and not loading
ClickRefresh ==
    /\ home.mounted
    /\ ~home.effectPending
    /\ home.status = "authenticated"
    /\ ~home.loading
    /\ Awaits(home, home.status) => Len(home.calls) < MaxRefreshes
    /\ home' = Refreshing(home, home.status)
    /\ UNCHANGED <<projectVars, chatClient, auth>>

\* handleAddProject, its button enabled when authenticated and not adding
HandleAddProject ==
    /\ home.mounted
    /\ ~home.effectPending
    /\ home.status = "authenticated"
    /\ ~home.addingProject
    /\ ~home.showAddProject
    /\ home' = [home EXCEPT !.showAddProject = TRUE, !.newProjectKeyword = T_EMPTY]
    /\ UNCHANGED <<projectVars, chatClient, auth>>

\* onChange={(e) => setNewProjectKeyword(e.target.value)}
SetNewProjectKeyword ==
    /\ home.mounted
    /\ home.showAddProject
    /\ \E text \in {T_BLANK, T_ABC} \ {home.newProjectKeyword} :
           home' = [home EXCEPT !.newProjectKeyword = text]
    /\ UNCHANGED <<projectVars, chatClient, auth>>

\* handleCancelAddProject, by the Escape key or by its button
HandleCancelAddProject ==
    /\ home.mounted
    /\ home.showAddProject
    /\ home' = [home EXCEPT !.showAddProject = FALSE, !.newProjectKeyword = T_EMPTY]
    /\ UNCHANGED <<projectVars, chatClient, auth>>

\* handleConfirmAddProject, by the Enter key or by its button, up to its
\* first await or to its return
HandleConfirmAddProject ==
    /\ home.mounted
    /\ ~home.effectPending
    /\ home.showAddProject
    /\ Len(home.adds) < MaxAdds
    /\ home' = IF Trim(home.newProjectKeyword) = <<>> THEN home
               ELSE IF home.hasEnvId /\ ~home.ready
               THEN [home EXCEPT !.error = Str(APP_NOT_INITIALIZED)]
               ELSE [home EXCEPT !.addingProject = TRUE,
                                 !.adds = Append(@, [pc |-> "crawl",
                                                     status |-> home.status,
                                                     call |-> 0])]
    /\ UNCHANGED <<projectVars, chatClient, auth>>

\* the first await of handleConfirmAddProject ends: the timer fires, or
\* app.callFunction resolves, the crawler having added a document or not, or
\* it rejects
CrawlSettles ==
    /\ \E j \in DOMAIN home.adds :
           /\ home.adds[j].pc = "crawl"
           /\ Awaits(home, home.adds[j].status) => Len(home.calls) < MaxRefreshes
           /\ \/ \E added \in (IF home.hasEnvId THEN {0, 1} ELSE {0}) :
                     home' = AfterCrawl([home EXCEPT !.size = @ + added], j)
              \/ /\ home.hasEnvId
                 /\ \E thrown \in {ThrownError(T_ABC), ThrownValue} :
                        home' = [home EXCEPT
                                    !.error = Str(IF thrown.error THEN thrown.message
                                                  ELSE ADD_FAILED),
                                    !.addingProject = FALSE,
                                    !.adds[j].pc = "threw"]
    /\ UNCHANGED <<projectVars, chatClient, auth>>

\* the database serves the get of a call: it reads the collection
DbServes ==
    /\ \E i \in DOMAIN home.calls :
           /\ home.calls[i].pc = "get"
           /\ home' = [home EXCEPT !.calls[i].pc = "served", !.calls[i].served = home.size]
    /\ UNCHANGED <<projectVars, chatClient, auth>>

\* db.get() of a call resolves with the snapshot it was served
GetResolves ==
    /\ \E i \in DOMAIN home.calls :
           /\ home.calls[i].pc = "served"
           /\ home' = AfterRefresh(Fetched(home, i), i)
    /\ UNCHANGED <<projectVars, chatClient, auth>>

\* db.get() of a call rejects
GetRejects ==
    /\ \E i \in DOMAIN home.calls, thrown \in {ThrownError(T_ABC), ThrownValue} :
           /\ home.calls[i].pc \in {"get", "served"}
           /\ home' = AfterRefresh(FetchFailed(home, i, thrown), i)
    /\ UNCHANGED <<projectVars, chatClient, auth>>

HomeNext ==
    \/ StatusChanges
    \/ HomeEffect
    \/ ClickRefresh
    \/ HandleAddProject
    \/ SetNewProjectKeyword
    \/ HandleCancelAddProject
    \/ HandleConfirmAddProject
    \/ CrawlSettles
    \/ DbServes
    \/ GetResolves
    \/ GetRejects

HomeSpec == HomeInit /\ [][HomeNext]_vars

----------------------------------------------------------------------------
(* Properties of the Home page *)

Pending(call) == call.pc \in {"get", "served"}

\* C30: loading is true while a refreshData call is in flight, and when
\* none is and the call started last has resolved, projects is its result.
C30_LatestCallWins ==
    /\ (\E i \in DOMAIN home.calls : Pending(home.calls[i])) => home.loading
    /\ (/\ home.calls # <<>>
        /\ \A i \in DOMAIN home.calls : ~Pending(home.calls[i])
        /\ home.calls[Len(home.calls)].pc = "resolved") =>
           home.projects = projectList(Snapshot(home.calls[Len(home.calls)].served))

====
